---- MODULE Spec2Model ----
(***************************************************************************)
(* Power Sequencing Controller (PowerManager) and Sleep Schedule Evaluator  *)
(* (RTCTimeManager) of the FR-Mobile firmware.                             *)
(*                                                                         *)
(* Units.  Sleep durations and accumulated times are in milliseconds (the  *)
(* source keeps microseconds in uint64_t; the values used here are the     *)
(* source values divided by 1000).  Battery percentages are in hundredths  *)
(* of a percent (the source keeps a float; 5.0f is 500).                   *)
(*                                                                         *)
(* Builds.  The source is compiled either with ESP32_PLATFORM defined or   *)
(* as the generic development build; `platform` is fixed at start-up and   *)
(* every #ifdef of the source is a test of it.                             *)
(***************************************************************************)
EXTENDS Integers, Sequences, FiniteSets, TLC

\* ------------------------------------------------------------------------
\* Program constants (power_manager.h)
\* ------------------------------------------------------------------------
MIN_SLEEP_DURATION == 1000
MAX_SLEEP_DURATION == 3600000
EMERGENCY_SLEEP_DURATION == 3600000
DEFAULT_LOW_BATTERY == 1500
DEFAULT_CRITICAL_BATTERY == 500
DEFAULT_WATCHDOG_TIMEOUT == 300000
WAKEUP_TIMER == 1
\* 0xFFFFFFFFFFFFFFFFULL, the "sleep until intervention" duration: the
\* largest duration there is (larger than every other duration of the model)
UINT64_MAX == 2000000000

\* ------------------------------------------------------------------------
\* Bounds of the model
\* ------------------------------------------------------------------------
\* wakeup events counted in one session before the sleep operations stop
MaxWakeupEvents == 2

\* ------------------------------------------------------------------------
\* Input sets
\* ------------------------------------------------------------------------
Platforms == {"ESP32", "GENERIC"}

\* requested sleep durations: below, at and above both bounds
SleepRequests ==
    {MIN_SLEEP_DURATION - 1, MIN_SLEEP_DURATION, MIN_SLEEP_DURATION + 1,
     MAX_SLEEP_DURATION, MAX_SLEEP_DURATION + 1, UINT64_MAX}

\* active periods (ms) the steady clock reports between a wake and a sleep;
\* one representative period, the clock having advanced since the wake
ActiveDurations == {1}

\* battery percentages: at and 0.01 either side of both thresholds
BatteryPercents ==
    {0, DEFAULT_CRITICAL_BATTERY, DEFAULT_CRITICAL_BATTERY + 1,
     DEFAULT_LOW_BATTERY, DEFAULT_LOW_BATTERY + 1, 10000}

\* wakeup source masks handed to enterDeepSleep
WakeupMasks == {0, WAKEUP_TIMER, 2}

\* what esp_sleep_get_wakeup_cause() reports after a light sleep
WakeupReasons == {"TIMER", "GPIO"}

\* struct PeripheralConfig with its default member initialisers
PeripheralConfig ==
    [wifi |-> FALSE, bluetooth |-> FALSE, cellular |-> FALSE,
     sdcard |-> FALSE, sensors |-> FALSE, external5V |-> FALSE,
     rtc |-> TRUE, watchdog |-> TRUE]

\* struct PowerConfig with its default member initialisers
PowerConfig ==
    [maxSleepDuration |-> MAX_SLEEP_DURATION,
     minSleepDuration |-> MIN_SLEEP_DURATION,
     lowBatteryThreshold |-> DEFAULT_LOW_BATTERY,
     criticalBatteryThreshold |-> DEFAULT_CRITICAL_BATTERY,
     emergencyShutdownEnabled |-> TRUE,
     watchdogTimeoutMs |-> DEFAULT_WATCHDOG_TIMEOUT]

\* struct PowerStats with its default member initialisers; the totals are in
\* milliseconds, averageSleepDuration is in seconds and dutyCycle in percent
\* (both floats of the source, truncated to whole numbers)
PowerStats ==
    [totalSleepTime |-> 0, totalActiveTime |-> 0,
     sleepCycles |-> 0, wakeupEvents |-> 0,
     averageSleepDuration |-> 0, dutyCycle |-> 0,
     lastWakeupCause |-> "", lastResetReason |-> ""]

\* the PeripheralConfig whose true members are those named in on
ConfigOf(on) == [f \in DOMAIN PeripheralConfig |-> f \in on]

\* configurations handed to configurePeripherals
ConfigInputs ==
    { ConfigOf({"rtc", "watchdog"}),
      ConfigOf(DOMAIN PeripheralConfig),
      ConfigOf({"external5V", "cellular", "rtc", "watchdog"}),
      ConfigOf({"external5V", "wifi", "sensors", "rtc", "watchdog"}),
      ConfigOf({"external5V", "wifi", "bluetooth", "sdcard", "sensors"}),
      ConfigOf({"bluetooth", "watchdog"}) }

VARIABLES
    platform,               \* the build: ESP32_PLATFORM defined or not
    pc,                     \* "active", "asleep" (ESP32 deep sleep), "halted"
    resetReason,            \* what platformGetResetReason() reports
    initialized_,
    emergencyMode_,
    peripheralConfig_,
    powerConfig_,
    powerStats_,
    accumulatedSleepTime_,
    accumulatedActiveTime_,
    watchdogHandle_,        \* TRUE for non-null
    gpioLevel,              \* level of the 5V control pin (0 = 5V enabled)
    gpioHold,               \* hold latch of the 5V control pin
    call,                   \* the last operation: name, argument, result
    railLog,                \* rail switches made by the last operation
    sleepLog,               \* platform sleep calls made by the last operation
    upLog,                  \* when the last operation is a disablePeripherals()
                            \* that directly followed an enablePeripherals():
                            \* the rail switches of that enablePeripherals()
    stats,                  \* the PowerStats the last getPowerStats() returned
    sleepSchedule_,         \* RTCTimeManager::sleepSchedule_
    rtcCall,                \* the last getNightSleepDuration(): argument, result
    rtc,                    \* the RTCTimeManager: its members
    timeRegisters,          \* DS1307 registers 0x00..0x06, in BCD
    chipRam,                \* DS1307 RAM, the 12 bytes of the persisted record
    syncCall,               \* the last call of the sync service and its result
    syncCount,              \* successful synchronisations since the start
    session,                \* since the last initialize(): the total drift it
                            \* started with and the synchronisations made
    saved,                  \* the counters the last save wrote, if it wrote
                            \* the whole record
    syncStats,              \* the RTCSyncStats the last getSyncStats() returned
    syncPc,                 \* the statement a thread in setTimeFromNetwork is at
    syncLocal,              \* that call's locals: hadValidTime, driftSeconds
    statsPc,                \* the statement a thread in getSyncStats is at
    statsLocal,             \* that call's local stats
    history,                \* the counters the service held between two
                            \* synchronisations, the one in progress included
    deviceFound_,           \* BQ34z100BatteryMonitor::deviceFound_
    safetyLimits_,          \* BQ34z100BatteryMonitor::safetyLimits_
    batteryStack,           \* frames of the thread inside readBatteryStatus
    batterySignal,          \* what its innermost frame has been handed
    limitExceeded,          \* the current readBatteryStatus() call obtained a
                            \* reading outside the limits
    emergencySleeps,        \* enterEmergencySleep() calls made during it
    appPc,                  \* where runMainLoop() is
    currentState,           \* ForestryResearchApplication::currentState
    shouldShutdown,
    emergencyStop,
    batteryCheck,           \* the last checkBatteryStatus(): what the read
                            \* delivered and the result
    cycles,                 \* iterations of the main loop started
    cellular,               \* the CellularManager: its members
    connectPc,              \* where the thread inside connect() is
    attempts,               \* checkNetworkRegistration's local attempts
    cellCall,               \* the last call of the CellularManager, its
                            \* result, the registration status the modem
                            \* reported in it and the time it waited
    logQueue_,              \* Logger::logQueue_, the entries by their numbers
    enqueued,               \* entries pushed so far
    writtenLog,             \* the entries the logger thread has written
    shutdownRequested_,
    queueMutex_,            \* who holds it: "free", "logger", "flush"
    loggerPc,               \* where the logger thread is; "none" before it
                            \* is started
    entryHeld,              \* the entry the logger thread has popped
    notified,               \* the blocked logger thread has been notified
    flushPc,                \* where the thread inside flush() is
    flushCall,              \* what the last flush() call found
    shutdownPc,             \* where the thread inside shutdown() is
    shutdownLines,          \* lines of logSystemShutdown() pushed
    shutdownCall,           \* what the last shutdown() call found
    sdcard,                 \* the SDCardManager: its members
    sdFiles,                \* the card: the file written and its ".tmp"
    sdCall                  \* the last call of the SDCardManager: the file
                            \* before it, the data, the result

\* the variables of the PowerManager and of its platform
powerVars == <<platform, pc, resetReason, initialized_, emergencyMode_,
               peripheralConfig_, powerConfig_, powerStats_,
               accumulatedSleepTime_, accumulatedActiveTime_, watchdogHandle_,
               gpioLevel, gpioHold, call, railLog, sleepLog, upLog, stats>>

\* the variables of the RTCTimeManager
syncVars == <<rtc, timeRegisters, chipRam, syncCall, syncCount, session, saved, syncStats>>

\* the variables of two threads inside the RTCTimeManager
raceVars == <<syncPc, syncLocal, statsPc, statsLocal, history>>

rtcVars == <<sleepSchedule_, rtcCall, syncVars, raceVars>>

\* the variables of the BQ34z100BatteryMonitor
batteryVars == <<deviceFound_, safetyLimits_, batteryStack, batterySignal,
                 limitExceeded, emergencySleeps>>

\* the variables of the ForestryResearchApplication
appVars == <<appPc, currentState, shouldShutdown, emergencyStop, batteryCheck,
             cycles>>

\* the variables of the CellularManager
cellVars == <<cellular, connectPc, attempts, cellCall>>

\* the variables of a flush() and of a shutdown() of the Logger
flushVars == <<flushPc, flushCall>>
shutdownVars == <<shutdownPc, shutdownLines, shutdownCall>>

\* the variables of the Logger
logVars == <<logQueue_, enqueued, writtenLog, shutdownRequested_, queueMutex_,
             loggerPc, entryHeld, notified, flushVars, shutdownVars>>

\* the variables of the SDCardManager
sdVars == <<sdcard, sdFiles, sdCall>>

\* the variables of the other services
serviceVars == <<batteryVars, appVars, cellVars, logVars, sdVars>>

vars == <<powerVars, rtcVars, serviceVars>>

\* all variables but those of the battery monitor
notBatteryVars == <<powerVars, rtcVars, appVars, cellVars, logVars, sdVars>>

\* all variables but those of the application
notAppVars == <<powerVars, rtcVars, batteryVars, cellVars, logVars, sdVars>>

\* all variables but those of the CellularManager
notCellVars == <<powerVars, rtcVars, batteryVars, appVars, logVars, sdVars>>

\* all variables but those of the Logger
notLogVars == <<powerVars, rtcVars, batteryVars, appVars, cellVars, sdVars>>

\* all variables but those of the SDCardManager
notSdVars == <<powerVars, rtcVars, batteryVars, appVars, cellVars, logVars>>

\* ------------------------------------------------------------------------
\* The controller as one record, so that every method is an operator from
\* the state before the call to the state after it
\* ------------------------------------------------------------------------
Self ==
    [pc |-> pc,
     initialized_ |-> initialized_,
     emergencyMode_ |-> emergencyMode_,
     peripheralConfig_ |-> peripheralConfig_,
     powerConfig_ |-> powerConfig_,
     powerStats_ |-> powerStats_,
     accumulatedSleepTime_ |-> accumulatedSleepTime_,
     accumulatedActiveTime_ |-> accumulatedActiveTime_,
     watchdogHandle_ |-> watchdogHandle_,
     gpioLevel |-> gpioLevel,
     gpioHold |-> gpioHold,
     railLog |-> <<>>,
     sleepLog |-> <<>>,
     ret |-> "void"]

\* PowerManager::PowerManager
Constructed(level, hold) ==
    [pc |-> "active",
     initialized_ |-> FALSE,
     emergencyMode_ |-> FALSE,
     peripheralConfig_ |-> PeripheralConfig,
     powerConfig_ |-> PowerConfig,
     powerStats_ |-> PowerStats,
     accumulatedSleepTime_ |-> 0,
     accumulatedActiveTime_ |-> 0,
     watchdogHandle_ |-> FALSE,
     gpioLevel |-> level,
     gpioHold |-> hold,
     railLog |-> <<>>,
     sleepLog |-> <<>>,
     ret |-> "void"]

\* PowerManager::set5VSupply
set5VSupply(plat, st, enabled) ==
    [st EXCEPT !.peripheralConfig_.external5V = enabled,
               !.gpioLevel = IF plat = "ESP32"
                             THEN (IF enabled THEN 0 ELSE 1) ELSE @,
               !.gpioHold = IF plat = "ESP32" THEN enabled ELSE @,
               !.railLog = Append(@, [rail |-> "5V", on |-> enabled])]

\* PowerManager::is5VSupplyEnabled: the ESP32 build reads the pin (LOW is
\* enabled), the development build the tracked flag
is5VSupplyEnabled(plat, st) ==
    IF plat = "ESP32" THEN st.gpioLevel = 0 ELSE st.peripheralConfig_.external5V

\* PowerManager::configureGPIOHolds
configureGPIOHolds(plat, st) ==
    IF plat = "ESP32" /\ is5VSupplyEnabled(plat, st)
    THEN [st EXCEPT !.gpioHold = TRUE] ELSE st

\* PowerManager::enableGPIOHold on the 5V control pin
enableGPIOHold(plat, st, state) ==
    IF plat = "ESP32"
    THEN [st EXCEPT !.gpioLevel = IF state THEN 1 ELSE 0, !.gpioHold = TRUE]
    ELSE st

\* PowerManager::disableAllGPIOHolds
disableAllGPIOHolds(plat, st) ==
    IF plat = "ESP32" THEN [st EXCEPT !.gpioHold = FALSE] ELSE st

\* PowerManager::controlPeripheralPower: the ESP32 build returns from the
\* wifi, bluetooth and cellular branches before the configuration update
controlPeripheralPower(plat, st, peripheral, enabled) ==
    [st EXCEPT !.peripheralConfig_ =
                   IF plat = "ESP32"
                      /\ peripheral \in {"wifi", "bluetooth", "cellular"}
                   THEN @
                   ELSE [@ EXCEPT ![peripheral] = enabled],
               !.railLog = Append(@, [rail |-> peripheral, on |-> enabled])]

\* PowerManager::enablePeripherals
enablePeripherals(plat, st) ==
    IF ~st.initialized_ THEN st
    ELSE
    LET s0 == set5VSupply(plat, st, TRUE)
        s1 == IF s0.peripheralConfig_.wifi
              THEN controlPeripheralPower(plat, s0, "wifi", TRUE) ELSE s0
        s2 == IF s1.peripheralConfig_.bluetooth
              THEN controlPeripheralPower(plat, s1, "bluetooth", TRUE) ELSE s1
        s3 == IF s2.peripheralConfig_.cellular
              THEN controlPeripheralPower(plat, s2, "cellular", TRUE) ELSE s2
        s4 == IF s3.peripheralConfig_.sdcard
              THEN controlPeripheralPower(plat, s3, "sdcard", TRUE) ELSE s3
        s5 == IF s4.peripheralConfig_.sensors
              THEN controlPeripheralPower(plat, s4, "sensors", TRUE) ELSE s4
    IN s5

\* disablePeripherals with the 5V rail switched off before the peripherals
disablePeripherals_5VFirst(plat, st) ==
    IF ~st.initialized_ THEN st
    ELSE
    LET s0 == set5VSupply(plat, st, FALSE)
        s1 == IF s0.peripheralConfig_.sensors
              THEN controlPeripheralPower(plat, s0, "sensors", FALSE) ELSE s0
        s2 == IF s1.peripheralConfig_.sdcard
              THEN controlPeripheralPower(plat, s1, "sdcard", FALSE) ELSE s1
        s3 == IF s2.peripheralConfig_.cellular
              THEN controlPeripheralPower(plat, s2, "cellular", FALSE) ELSE s2
        s4 == IF s3.peripheralConfig_.bluetooth
              THEN controlPeripheralPower(plat, s3, "bluetooth", FALSE) ELSE s3
        s5 == IF s4.peripheralConfig_.wifi
              THEN controlPeripheralPower(plat, s4, "wifi", FALSE) ELSE s4
    IN s5

\* PowerManager::disablePeripherals
disablePeripherals(plat, st) ==
    IF ~st.initialized_ THEN st
    ELSE
    LET s1 == IF st.peripheralConfig_.sensors
              THEN controlPeripheralPower(plat, st, "sensors", FALSE) ELSE st
        s2 == IF s1.peripheralConfig_.sdcard
              THEN controlPeripheralPower(plat, s1, "sdcard", FALSE) ELSE s1
        s3 == IF s2.peripheralConfig_.cellular
              THEN controlPeripheralPower(plat, s2, "cellular", FALSE) ELSE s2
        s4 == IF s3.peripheralConfig_.bluetooth
              THEN controlPeripheralPower(plat, s3, "bluetooth", FALSE) ELSE s3
        s5 == IF s4.peripheralConfig_.wifi
              THEN controlPeripheralPower(plat, s4, "wifi", FALSE) ELSE s4
    IN set5VSupply(plat, s5, FALSE)

\* PowerManager::configurePeripherals
configurePeripherals(plat, st, config) ==
    LET s1 == IF config.wifi # st.peripheralConfig_.wifi
              THEN controlPeripheralPower(plat, st, "wifi", config.wifi)
              ELSE st
        s2 == IF config.bluetooth # s1.peripheralConfig_.bluetooth
              THEN controlPeripheralPower(plat, s1, "bluetooth", config.bluetooth)
              ELSE s1
        s3 == IF config.cellular # s2.peripheralConfig_.cellular
              THEN controlPeripheralPower(plat, s2, "cellular", config.cellular)
              ELSE s2
        s4 == IF config.sdcard # s3.peripheralConfig_.sdcard
              THEN controlPeripheralPower(plat, s3, "sdcard", config.sdcard)
              ELSE s3
        s5 == IF config.sensors # s4.peripheralConfig_.sensors
              THEN controlPeripheralPower(plat, s4, "sensors", config.sensors)
              ELSE s4
        s6 == IF config.external5V # s5.peripheralConfig_.external5V
              THEN set5VSupply(plat, s5, config.external5V)
              ELSE s5
    IN [s6 EXCEPT !.peripheralConfig_ = config]

\* validateSleepDuration without the upper clamp
validateSleepDuration_NoMax(config, sleepTimeUs) ==
    IF sleepTimeUs < config.minSleepDuration THEN config.minSleepDuration
    ELSE sleepTimeUs

\* PowerManager::validateSleepDuration
validateSleepDuration(config, sleepTimeUs) ==
    IF sleepTimeUs < config.minSleepDuration THEN config.minSleepDuration
    ELSE IF sleepTimeUs > config.maxSleepDuration THEN config.maxSleepDuration
    ELSE sleepTimeUs

\* PowerManager::updateDutyCycle (the float percentage, truncated)
updateDutyCycle(st) ==
    LET totalTime == st.accumulatedActiveTime_ + st.accumulatedSleepTime_
    IN IF totalTime > 0
       THEN [st EXCEPT !.powerStats_.dutyCycle =
                           (st.accumulatedActiveTime_ * 100) \div totalTime]
       ELSE st

\* PowerManager::updatePowerStats
updatePowerStats(st, operation) ==
    IF operation = "wakeup"
    THEN updateDutyCycle([st EXCEPT !.powerStats_.wakeupEvents = @ + 1])
    ELSE st

\* getPowerStats reporting the share of sleep time as the duty cycle
getPowerStats_SleepShare(st) ==
    LET s0 == [st.powerStats_ EXCEPT
                   !.totalActiveTime = st.accumulatedActiveTime_,
                   !.totalSleepTime = st.accumulatedSleepTime_]
        s1 == IF s0.sleepCycles > 0
              THEN [s0 EXCEPT !.averageSleepDuration =
                        (s0.totalSleepTime \div s0.sleepCycles) \div 1000]
              ELSE s0
        totalTime == s1.totalActiveTime + s1.totalSleepTime
    IN IF totalTime > 0
       THEN [s1 EXCEPT !.dutyCycle = (s1.totalSleepTime * 100) \div totalTime]
       ELSE s1

\* getPowerStats averaging over the wakeup events instead of the sleep cycles
getPowerStats_AveragePerWakeup(st) ==
    LET s0 == [st.powerStats_ EXCEPT
                   !.totalActiveTime = st.accumulatedActiveTime_,
                   !.totalSleepTime = st.accumulatedSleepTime_]
        s1 == IF s0.wakeupEvents > 0
              THEN [s0 EXCEPT !.averageSleepDuration =
                        (s0.totalSleepTime \div s0.wakeupEvents) \div 1000]
              ELSE s0
        totalTime == s1.totalActiveTime + s1.totalSleepTime
    IN IF totalTime > 0
       THEN [s1 EXCEPT !.dutyCycle = (s1.totalActiveTime * 100) \div totalTime]
       ELSE s1

\* PowerManager::getPowerStats: the copy of powerStats_ it returns.  The
\* average is totalSleepTime / sleepCycles / 1000000.0f, seconds from
\* microseconds (here / 1000, seconds from milliseconds)
getPowerStats(st) ==
    LET s0 == [st.powerStats_ EXCEPT
                   !.totalActiveTime = st.accumulatedActiveTime_,
                   !.totalSleepTime = st.accumulatedSleepTime_]
        s1 == IF s0.sleepCycles > 0
              THEN [s0 EXCEPT !.averageSleepDuration =
                        (s0.totalSleepTime \div s0.sleepCycles) \div 1000]
              ELSE s0
        totalTime == s1.totalActiveTime + s1.totalSleepTime
    IN IF totalTime > 0
       THEN [s1 EXCEPT !.dutyCycle = (s1.totalActiveTime * 100) \div totalTime]
       ELSE s1

\* PowerManager::prepareSleep: the watchdog reset and the GPIO isolation
\* change nothing the controller tracks
prepareSleep(st, deepSleep) == updatePowerStats(st, "sleep_entry")

\* PowerManager::restoreFromSleep; cause is what getWakeupCause() reports
restoreFromSleep(st, fromDeepSleep, cause) ==
    updatePowerStats(
        IF fromDeepSleep
        THEN [st EXCEPT !.powerStats_.lastWakeupCause = cause]
        ELSE st,
        "wakeup")

\* PowerManager::configureWakeup
configureWakeup(st, timeUs) ==
    [st EXCEPT !.sleepLog = Append(@, [kind |-> "timerWakeup", us |-> timeUs])]

\* PowerManager::platformEnterDeepSleep: esp_deep_sleep() does not return;
\* the development build sleeps on the thread and returns
platformEnterDeepSleep(plat, st, sleepTimeUs) ==
    [st EXCEPT !.sleepLog = Append(@, [kind |-> "deepSleep", us |-> sleepTimeUs]),
               !.pc = IF plat = "ESP32" THEN "asleep" ELSE @]

\* enterDeepSleep configuring the timer wakeup before clamping the duration
enterDeepSleep_UnclampedWakeup(plat, st, sleepTimeUs, wakeupSources, activeDuration) ==
    IF ~st.initialized_ THEN st
    ELSE
    LET t  == validateSleepDuration(st.powerConfig_, sleepTimeUs)
        s1 == [st EXCEPT !.accumulatedActiveTime_ = @ + activeDuration,
                         !.powerStats_.sleepCycles = @ + 1]
        s2 == prepareSleep(s1, TRUE)
        s3 == IF wakeupSources % 2 = WAKEUP_TIMER
              THEN configureWakeup(s2, sleepTimeUs) ELSE s2
        s4 == platformEnterDeepSleep(plat, s3, t)
        s5 == [s4 EXCEPT !.accumulatedSleepTime_ = @ + t,
                         !.powerStats_.wakeupEvents = @ + 1]
        s6 == restoreFromSleep(s5, TRUE, "Timer wakeup")
    IN IF s4.pc # "active" THEN s4 ELSE updateDutyCycle(s6)

\* PowerManager::enterDeepSleep; activeDuration is lastSleepTime_ - lastWakeTime_
enterDeepSleep(plat, st, sleepTimeUs, wakeupSources, activeDuration) ==
    IF ~st.initialized_ THEN st
    ELSE
    LET t  == validateSleepDuration(st.powerConfig_, sleepTimeUs)
        s1 == [st EXCEPT !.accumulatedActiveTime_ = @ + activeDuration,
                         !.powerStats_.sleepCycles = @ + 1]
        s2 == prepareSleep(s1, TRUE)
        s3 == IF wakeupSources % 2 = WAKEUP_TIMER
              THEN configureWakeup(s2, t) ELSE s2
        s4 == platformEnterDeepSleep(plat, s3, t)
        \* this code runs after waking up
        s5 == [s4 EXCEPT !.accumulatedSleepTime_ = @ + t,
                         !.powerStats_.wakeupEvents = @ + 1]
        s6 == restoreFromSleep(s5, TRUE, "Timer wakeup")
    IN IF s4.pc # "active" THEN s4 ELSE updateDutyCycle(s6)

\* PowerManager::enterSleep
enterSleep(plat, st, sleepTimeUs, activeDuration) ==
    enterDeepSleep(plat, st, sleepTimeUs, WAKEUP_TIMER, activeDuration)

\* what happened in a light sleep: esp_light_sleep_start() refused to sleep
\* (espOk false), or the sleep ran until the timer fired, or another wake
\* source ended it; the development build always sleeps the whole duration
LightSleepOutcome(plat, espOk, wakeupReason) ==
    IF plat # "ESP32" THEN "timerWake"
    ELSE IF ~espOk THEN "notSlept"
    ELSE IF wakeupReason = "TIMER" THEN "timerWake"
    ELSE "otherWake"

\* platformEnterLightSleep reporting a normal wakeup whatever the wake source
platformEnterLightSleep_IgnoresCause(plat, espOk, wakeupReason) ==
    IF plat = "ESP32" THEN espOk ELSE TRUE

\* PowerManager::platformEnterLightSleep; espOk is whether
\* esp_light_sleep_start() returns ESP_OK, wakeupReason is what
\* esp_sleep_get_wakeup_cause() reports
platformEnterLightSleep(plat, espOk, wakeupReason) ==
    IF plat = "ESP32" THEN espOk /\ wakeupReason = "TIMER" ELSE TRUE

\* PowerManager::enterLightSleep; actualSleepTime is
\* lastWakeTime_ - lastSleepTime_
enterLightSleep(plat, st, sleepTimeUs, activeDuration, espOk, wakeupReason, actualSleepTime) ==
    IF ~st.initialized_ THEN [st EXCEPT !.ret = "false"]
    ELSE
    LET t  == validateSleepDuration(st.powerConfig_, sleepTimeUs)
        s1 == [st EXCEPT !.accumulatedActiveTime_ = @ + activeDuration]
        s2 == prepareSleep(s1, FALSE)
        normalWakeup == platformEnterLightSleep(plat, espOk, wakeupReason)
        s3 == [s2 EXCEPT !.sleepLog =
                   @ \o <<[kind |-> "lightSleep", us |-> t],
                          [kind |-> LightSleepOutcome(plat, espOk, wakeupReason),
                           us |-> actualSleepTime]>>]
        s4 == [s3 EXCEPT !.accumulatedSleepTime_ = @ + actualSleepTime]
        s5 == restoreFromSleep(s4, FALSE, "")
    IN [updateDutyCycle(s5) EXCEPT !.ret = IF normalWakeup THEN "true" ELSE "false"]

\* an emergency configuration that drops the watchdog
emergencyConfig_NoWatchdog ==
    [PeripheralConfig EXCEPT !.watchdog = FALSE]

\* the PeripheralConfig enterEmergencyMode builds
emergencyConfig ==
    [PeripheralConfig EXCEPT !.external5V = FALSE, !.wifi = FALSE,
                             !.bluetooth = FALSE, !.cellular = FALSE,
                             !.sdcard = FALSE, !.sensors = FALSE,
                             !.rtc = TRUE, !.watchdog = TRUE]

\* enterEmergencyMode without the already-in-emergency-mode guard
enterEmergencyMode_NoGuard(plat, st, activeDuration) ==
    LET s1 == [st EXCEPT !.emergencyMode_ = TRUE]
        s2 == configurePeripherals(plat, s1, emergencyConfig)
    IN enterDeepSleep(plat, s2, EMERGENCY_SLEEP_DURATION, WAKEUP_TIMER,
                      activeDuration)

\* enterEmergencyMode entering its deep sleep with no wakeup source
enterEmergencyMode_NoTimer(plat, st, activeDuration) ==
    IF st.emergencyMode_ THEN st
    ELSE
    LET s1 == [st EXCEPT !.emergencyMode_ = TRUE]
        s2 == configurePeripherals(plat, s1, emergencyConfig)
    IN enterDeepSleep(plat, s2, EMERGENCY_SLEEP_DURATION, 0, activeDuration)

\* PowerManager::enterEmergencyMode
enterEmergencyMode(plat, st, activeDuration) ==
    IF st.emergencyMode_ THEN st
    ELSE
    LET s1 == [st EXCEPT !.emergencyMode_ = TRUE]
        s2 == configurePeripherals(plat, s1, emergencyConfig)
    IN enterDeepSleep(plat, s2, EMERGENCY_SLEEP_DURATION, WAKEUP_TIMER,
                      activeDuration)

\* a low-power configuration that sheds the cellular modem as well
lowPowerConfig_DropsCellular(config) ==
    [config EXCEPT !.wifi = FALSE, !.bluetooth = FALSE, !.cellular = FALSE]

\* the PeripheralConfig checkBatteryLevel builds on low battery
lowPowerConfig(config) ==
    [config EXCEPT !.wifi = FALSE, !.bluetooth = FALSE]

\* checkBatteryLevel comparing with < where the source compares with <=
checkBatteryLevel_Strict(plat, st, batteryPercent, activeDuration) ==
    IF batteryPercent < st.powerConfig_.criticalBatteryThreshold
    THEN IF st.powerConfig_.emergencyShutdownEnabled
         THEN LET s1 == enterEmergencyMode(plat, st, activeDuration)
              IN [s1 EXCEPT !.ret = IF s1.pc # "active" THEN "noreturn"
                                    ELSE "false"]
         ELSE [st EXCEPT !.ret = "true"]
    ELSE IF batteryPercent < st.powerConfig_.lowBatteryThreshold
    THEN [configurePeripherals(plat, st, lowPowerConfig(st.peripheralConfig_))
              EXCEPT !.ret = "true"]
    ELSE [st EXCEPT !.ret = "true"]

\* checkBatteryLevel leaving emergency mode again on a healthy battery
checkBatteryLevel_Recovers(plat, st, batteryPercent, activeDuration) ==
    IF batteryPercent <= st.powerConfig_.criticalBatteryThreshold
    THEN IF st.powerConfig_.emergencyShutdownEnabled
         THEN LET s1 == enterEmergencyMode(plat, st, activeDuration)
              IN [s1 EXCEPT !.ret = IF s1.pc # "active" THEN "noreturn"
                                    ELSE "false"]
         ELSE [st EXCEPT !.ret = "true"]
    ELSE IF batteryPercent <= st.powerConfig_.lowBatteryThreshold
    THEN [configurePeripherals(plat, st, lowPowerConfig(st.peripheralConfig_))
              EXCEPT !.ret = "true"]
    ELSE [st EXCEPT !.ret = "true", !.emergencyMode_ = FALSE]

\* PowerManager::checkBatteryLevel; the result is "noreturn" when the
\* emergency deep sleep it started does not come back (esp_deep_sleep)
checkBatteryLevel(plat, st, batteryPercent, activeDuration) ==
    IF batteryPercent <= st.powerConfig_.criticalBatteryThreshold
    THEN IF st.powerConfig_.emergencyShutdownEnabled
         THEN LET s1 == enterEmergencyMode(plat, st, activeDuration)
              IN [s1 EXCEPT !.ret = IF s1.pc # "active" THEN "noreturn"
                                    ELSE "false"]
         ELSE [st EXCEPT !.ret = "true"]
    ELSE IF batteryPercent <= st.powerConfig_.lowBatteryThreshold
    THEN [configurePeripherals(plat, st, lowPowerConfig(st.peripheralConfig_))
              EXCEPT !.ret = "true"]
    ELSE [st EXCEPT !.ret = "true"]

\* PowerManager::executeEmergencyShutdown
executeEmergencyShutdown(plat, st) ==
    platformEnterDeepSleep(plat, disablePeripherals(plat, st), UINT64_MAX)

\* PowerManager::shutdown
shutdown(plat, st, emergency, activeDuration) ==
    IF emergency
    THEN executeEmergencyShutdown(plat, st)
    ELSE enterDeepSleep(plat,
                        configureGPIOHolds(plat, disablePeripherals(plat, st)),
                        UINT64_MAX, 0, activeDuration)

\* PowerManager::platformInitializeWatchdog; ok is whether the esp_task_wdt
\* calls succeed (the development build always succeeds)
platformInitializeWatchdog(st, ok) ==
    IF ok THEN [st EXCEPT !.watchdogHandle_ = TRUE] ELSE st

\* PowerManager::disableWatchdog; ok is whether esp_task_wdt_deinit succeeds
\* (the development build always succeeds)
disableWatchdog(st, ok) ==
    IF ok THEN [st EXCEPT !.watchdogHandle_ = FALSE] ELSE st

\* PowerManager::configureWatchdog: the timeout is stored in the active
\* configuration before the watchdog is started, or stopped for a timeout of 0
configureWatchdog(st, timeoutMs, ok) ==
    LET s1 == [st EXCEPT !.powerConfig_.watchdogTimeoutMs = timeoutMs] IN
    IF timeoutMs = 0 THEN disableWatchdog(s1, ok)
    ELSE platformInitializeWatchdog(s1, ok)

\* PowerManager::setPowerConfig, declared in power_manager.h: the active
\* configuration is replaced as a whole
setPowerConfig(st, config) ==
    [st EXCEPT !.powerConfig_ = config, !.ret = "void"]

\* PowerManager::initialize; hwOk is whether esp_pm_configure and gpio_config
\* succeed, wdOk whether the watchdog can be started, reason and cause are
\* what the platform reports for the reset and the wakeup
initialize(plat, st, hwOk, wdOk, reason, cause) ==
    IF st.initialized_ THEN [st EXCEPT !.ret = "true"]
    ELSE IF ~hwOk THEN [st EXCEPT !.ret = "false"]
    ELSE
    LET s1 == IF plat = "ESP32"
              THEN [st EXCEPT !.gpioLevel = 1, !.gpioHold = FALSE] ELSE st
        s2 == [s1 EXCEPT !.powerStats_.lastResetReason = reason]
        s3 == IF reason = "DEEP_SLEEP"
              THEN [s2 EXCEPT !.powerStats_.lastWakeupCause = cause,
                              !.powerStats_.wakeupEvents = @ + 1]
              ELSE s2
        s4 == IF s3.powerConfig_.watchdogTimeoutMs > 0
              THEN configureWatchdog(s3, s3.powerConfig_.watchdogTimeoutMs, wdOk)
              ELSE s3
    IN [s4 EXCEPT !.initialized_ = TRUE, !.ret = "true"]

\* ------------------------------------------------------------------------
\* Sleep Schedule Evaluator (rtc_time_manager.cpp)
\* ------------------------------------------------------------------------
\* the schedule the RTCTimeManager constructor sets
SleepSchedule ==
    [nightStartHour |-> 22, nightEndHour |-> 6,
     nightSleepMinutes |-> 30, daySleepMinutes |-> 5, enabled |-> TRUE]

Hours == 0 .. 23

\* schedules handed to setSleepSchedule: every (nightStart, nightEnd) pair,
\* enabled and disabled
ScheduleInputs ==
    [nightStartHour : Hours, nightEndHour : Hours,
     nightSleepMinutes : {SleepSchedule.nightSleepMinutes},
     daySleepMinutes : {SleepSchedule.daySleepMinutes},
     enabled : BOOLEAN]

\* a time string handed to getNightSleepDuration: whether the whole string
\* has the form dddd-dd-ddTdd:dd:dd, and the two characters of its hour field
FormatTime(hour, wellFormed) ==
    [wellFormed |-> wellFormed, HH |-> <<hour \div 10, hour % 10>>]

\* std::stoi of a two-digit field
stoi(digits) == 10 * digits[1] + digits[2]

\* a sleepMinutes value as the duration returned (milliseconds)
MinutesToDuration(minutes) == minutes * 60 * 1000

\* getNightSleepDuration testing start <= hour < end whatever the order of
\* start and end
getNightSleepDuration_NoWrap(schedule, currentTime) ==
    IF ~schedule.enabled THEN MinutesToDuration(schedule.daySleepMinutes)
    ELSE IF ~currentTime.wellFormed
    THEN MinutesToDuration(schedule.daySleepMinutes)
    ELSE
    LET currentHour == stoi(currentTime.HH)
        isNight == /\ currentHour >= schedule.nightStartHour
                   /\ currentHour < schedule.nightEndHour
    IN MinutesToDuration(IF isNight THEN schedule.nightSleepMinutes
                         ELSE schedule.daySleepMinutes)

\* RTCTimeManager::getNightSleepDuration
getNightSleepDuration(schedule, currentTime) ==
    IF ~schedule.enabled THEN MinutesToDuration(schedule.daySleepMinutes)
    ELSE IF ~currentTime.wellFormed
    THEN MinutesToDuration(schedule.daySleepMinutes)
    ELSE
    LET currentHour == stoi(currentTime.HH)
        isNight == IF schedule.nightStartHour > schedule.nightEndHour
                   THEN \/ currentHour >= schedule.nightStartHour
                        \/ currentHour < schedule.nightEndHour
                   ELSE /\ currentHour >= schedule.nightStartHour
                        /\ currentHour < schedule.nightEndHour
    IN MinutesToDuration(IF isNight THEN schedule.nightSleepMinutes
                         ELSE schedule.daySleepMinutes)

\* ------------------------------------------------------------------------
\* The state machine
\* ------------------------------------------------------------------------
\* the controller's fields after an operation left it in state st
Becomes(st) ==
    /\ pc' = st.pc
    /\ initialized_' = st.initialized_
    /\ emergencyMode_' = st.emergencyMode_
    /\ peripheralConfig_' = st.peripheralConfig_
    /\ powerConfig_' = st.powerConfig_
    /\ powerStats_' = st.powerStats_
    /\ accumulatedSleepTime_' = st.accumulatedSleepTime_
    /\ accumulatedActiveTime_' = st.accumulatedActiveTime_
    /\ watchdogHandle_' = st.watchdogHandle_
    /\ gpioLevel' = st.gpioLevel
    /\ gpioHold' = st.gpioHold
    /\ railLog' = st.railLog
    /\ sleepLog' = st.sleepLog

\* the arguments of a call: a duration, a battery percentage, a wakeup
\* source mask and a flag, each at its default when the call has none
NoArgs == [us |-> 0, percent |-> 0, mask |-> 0, flag |-> FALSE]

\* the operation op, called with args, leaves the controller in state st
Called(op, args, st) ==
    /\ pc = "active"
    /\ Becomes(st)
    /\ call' = [op |-> op, args |-> args, ret |-> st.ret]
    /\ upLog' = IF op = "disablePeripherals" /\ call.op = "enablePeripherals"
                THEN railLog ELSE <<>>
    /\ stats' = PowerStats
    /\ UNCHANGED serviceVars
    /\ UNCHANGED <<platform, resetReason, rtcVars>>

\* the sleep operations stop once the session has counted MaxWakeupEvents
MaySleep == powerStats_.wakeupEvents < MaxWakeupEvents

\* ------------------------------------------------------------------------
\* The RTC Time Sync Service (RTCTimeManager over a DS1307)
\* ------------------------------------------------------------------------
\* the persisted record starts with 0xA5 0x5A
MAGIC_HI == 165
MAGIC_LO == 90

\* bit 7 of the seconds register: CH, the clock is halted
CH_BIT == 128

\* byte n (0 is the lowest) of a non-negative integer: (x >> 8n) & 0xFF
Byte(x, n) == (x \div (256 ^ n)) % 256

\* RTCTimeManager::decToBcd and bcdToDec on uint8_t
decToBcd(dec) == (((dec \div 10) * 16) % 256) + (dec % 10)

bcdToDec(bcd) == (((bcd \div 16) * 10) + (bcd % 16)) % 256

\* RTCTimeManager::calculateDayOfWeek
calculateDayOfWeek(year, month, day) ==
    LET m == IF month < 3 THEN month + 12 ELSE month
        y == IF month < 3 THEN year - 1 ELSE year
        k == y % 100
        j == y \div 100
        h == (day + ((13 * (m + 1)) \div 5) + k + (k \div 4) + (j \div 4) - (2 * j)) % 7
    IN ((h + 5) % 7) + 1

\* an RTCDateTime: the year counts from 2000
DateTime(year, month, date, hours, minutes, seconds) ==
    [year |-> year, month |-> month, date |-> date, hours |-> hours,
     minutes |-> minutes, seconds |-> seconds,
     dayOfWeek |-> calculateDayOfWeek(2000 + year, month, date)]

\* a time string: its layout and the numbers its digit groups spell.
\*   "ISO"   YYYY-MM-DDTHH:MM:SS       "ISO_Z" YYYY-MM-DDTHH:MM:SSZ
\*   "ALT"   YYYY-MM-DD HH:MM:SS       "CCLK"  YY/MM/DD,HH:MM:SS+ZZ
\*   "TEXT"  anything else             "EMPTY" the empty string
TimeString(format, year, month, day, hours, minutes, seconds) ==
    [format |-> format, year |-> year, month |-> month, day |-> day,
     hours |-> hours, minutes |-> minutes, seconds |-> seconds]

EmptyString == TimeString("EMPTY", 0, 0, 0, 0, 0, 0)

\* the string CellularManager::getNetworkTime hands over for a date and
\* time: the quoted part of the modem's +CCLK answer, two-digit year and a
\* time zone in quarter hours
getNetworkTime(year, month, day, hours, minutes, seconds) ==
    TimeString("CCLK", year % 100, month, day, hours, minutes, seconds)

\* RTCTimeManager::parseTimeString: regex_match of the whole string against
\* the ISO pattern, then against the pattern with a blank
parseTimeString(timeStr) ==
    IF timeStr.format \in {"ISO", "ALT"}
    THEN [ret |-> TRUE,
          dateTime |-> [year |-> (timeStr.year - 2000) % 256,
                        month |-> timeStr.month, date |-> timeStr.day,
                        hours |-> timeStr.hours, minutes |-> timeStr.minutes,
                        seconds |-> timeStr.seconds,
                        dayOfWeek |-> calculateDayOfWeek(timeStr.year, timeStr.month, timeStr.day)]]
    ELSE [ret |-> FALSE, dateTime |-> DateTime(0, 0, 0, 0, 0, 0)]

\* RTCTimeManager::isValidTime
isValidTime(timeStr) ==
    /\ timeStr.format = "ISO"
    /\ timeStr.year >= 2000 /\ timeStr.year <= 2099
    /\ timeStr.month >= 1 /\ timeStr.month <= 12
    /\ timeStr.day >= 1 /\ timeStr.day <= 31
    /\ timeStr.hours >= 0 /\ timeStr.hours <= 23
    /\ timeStr.minutes >= 0 /\ timeStr.minutes <= 59
    /\ timeStr.seconds >= 0 /\ timeStr.seconds <= 59
    /\ ~(timeStr.year = 2000 /\ timeStr.month = 1 /\ timeStr.day = 1)

\* RTCTimeManager::calculateDrift
calculateDrift(rtcTime, actualTime) ==
    LET rtcSeconds == rtcTime.seconds + (rtcTime.minutes * 60) + (rtcTime.hours * 3600) + (rtcTime.date * 86400)
        actualSeconds == actualTime.seconds + (actualTime.minutes * 60) + (actualTime.hours * 3600) + (actualTime.date * 86400)
    IN actualSeconds - rtcSeconds

\* std::abs
abs(x) == IF x < 0 THEN -x ELSE x

\* RTCTimeManager::writeRegisters of count bytes over the registers mem: the
\* ESP32 build runs one I2C transaction, which succeeds or breaks off after
\* the chip has taken the first torn bytes; the development build writes
\* nothing and reports success
writeRegisters(plat, mem, data, ok, torn) ==
    IF plat = "ESP32"
    THEN [ret |-> ok,
          mem |-> IF ok THEN data
                  ELSE [i \in DOMAIN mem |-> IF i <= torn THEN data[i] ELSE mem[i]]]
    ELSE [ret |-> TRUE, mem |-> mem]

\* RTCTimeManager::readRegisters into a caller's buffer holding buffer: the
\* ESP32 build fills it from the chip or fails; the development build
\* reports success and fills it only for the seven time registers
readRegisters(plat, mem, buffer, ok, isTime) ==
    IF plat = "ESP32"
    THEN [ret |-> ok, data |-> IF ok THEN mem ELSE buffer]
    ELSE [ret |-> TRUE, data |-> IF isTime THEN mem ELSE buffer]

\* RTCTimeManager::readDateTime, the seven registers in BCD
readDateTime(plat, registers, ok) ==
    LET read == readRegisters(plat, registers, registers, ok, TRUE)
        data == read.data
    IN [ret |-> read.ret,
        dateTime |-> [seconds |-> bcdToDec(data[1] % CH_BIT),
                      minutes |-> bcdToDec(data[2]),
                      hours |-> bcdToDec(data[3] % 64),
                      dayOfWeek |-> bcdToDec(data[4]),
                      date |-> bcdToDec(data[5]),
                      month |-> bcdToDec(data[6]),
                      year |-> bcdToDec(data[7])]]

\* the seven time registers holding dateTime, the oscillator running
TimeRegisters(dateTime) ==
    <<decToBcd(dateTime.seconds), decToBcd(dateTime.minutes),
      decToBcd(dateTime.hours), decToBcd(dateTime.dayOfWeek),
      decToBcd(dateTime.date), decToBcd(dateTime.month),
      decToBcd(dateTime.year)>>

\* RTCTimeManager::writeDateTime
writeDateTime(plat, registers, dateTime, ok, torn) ==
    writeRegisters(plat, registers, TimeRegisters(dateTime), ok, torn)

\* RTCTimeManager::getCurrentDateTime
getCurrentDateTime(plat, self, registers, ok) ==
    IF ~self.initialized_ THEN EmptyString
    ELSE LET read == readDateTime(plat, registers, ok)
             dateTime == read.dateTime
         IN IF ~read.ret THEN EmptyString
            ELSE TimeString("ISO", 2000 + dateTime.year, dateTime.month,
                            dateTime.date, dateTime.hours, dateTime.minutes,
                            dateTime.seconds)

\* the 12 bytes savePersistedData lays out for the counters of self
PersistedBytes(self) ==
    <<MAGIC_HI, MAGIC_LO,
      Byte(self.syncAttempts_, 1), Byte(self.syncAttempts_, 0),
      Byte(self.successfulSyncs_, 1), Byte(self.successfulSyncs_, 0),
      Byte(self.totalDriftSeconds_, 3), Byte(self.totalDriftSeconds_, 2),
      Byte(self.totalDriftSeconds_, 1), Byte(self.totalDriftSeconds_, 0),
      0, 0>>

\* savePersistedData writing the record of a service without successes
savePersistedData_NoSuccesses(plat, self, ram, ok, torn) ==
    writeRegisters(plat, ram, PersistedBytes([self EXCEPT !.successfulSyncs_ = 0]), ok, torn).mem

\* RTCTimeManager::savePersistedData: the RAM of the chip afterwards; a
\* failed write is logged and nothing else
savePersistedData(plat, self, ram, ok, torn) ==
    writeRegisters(plat, ram, PersistedBytes(self), ok, torn).mem

\* the int (data[6] << 24) | (data[7] << 16) | (data[8] << 8) | data[9]
Int32(b3, b2, b1, b0) ==
    ((IF b3 >= 128 THEN b3 - 256 ELSE b3) * 16777216) + (b2 * 65536) + (b1 * 256) + b0

\* loadPersistedData resetting the counters when it finds no record
loadPersistedData_ZeroOnMiss(plat, self, ram, ok, stack) ==
    LET read == readRegisters(plat, ram, stack, ok, FALSE)
        data == read.data
    IN IF read.ret /\ data[1] = MAGIC_HI /\ data[2] = MAGIC_LO
       THEN [self EXCEPT !.syncAttempts_ = (data[3] * 256) + data[4],
                         !.successfulSyncs_ = (data[5] * 256) + data[6],
                         !.totalDriftSeconds_ = Int32(data[7], data[8], data[9], data[10])]
       ELSE [self EXCEPT !.syncAttempts_ = 0, !.successfulSyncs_ = 0,
                         !.totalDriftSeconds_ = 0]

\* RTCTimeManager::loadPersistedData: stack is what the local buffer holds
\* before readEEPROM is called
loadPersistedData(plat, self, ram, ok, stack) ==
    LET read == readRegisters(plat, ram, stack, ok, FALSE)
        data == read.data
    IN IF read.ret /\ data[1] = MAGIC_HI /\ data[2] = MAGIC_LO
       THEN [self EXCEPT !.syncAttempts_ = (data[3] * 256) + data[4],
                         !.successfulSyncs_ = (data[5] * 256) + data[6],
                         !.totalDriftSeconds_ = Int32(data[7], data[8], data[9], data[10])]
       ELSE self

\* RTCTimeManager::RTCTimeManager: the members the constructor sets
RtcConstructed ==
    [initialized_ |-> FALSE, hasValidTime_ |-> FALSE, i2cInitialized_ |-> FALSE,
     lastSyncTime_ |-> 0, syncAttempts_ |-> 0, successfulSyncs_ |-> 0,
     totalDriftSeconds_ |-> 0]

\* the steps of RTCTimeManager::initialize that can fail, in their order
InitializeFailures ==
    {"initializeI2C", "isConnected", "readRegister", "writeRegister", "none"}

\* RTCTimeManager::initialize after the 5V rail is up. failAt names the
\* bus operation that fails (the development build simulates them all and
\* reads a seconds register of 0); ok and stack are the outcome of the read
\* of the persisted record and the content of its buffer before the read
rtcInitialize(plat, self, registers, ram, failAt, ok, stack) ==
    LET fail == IF plat = "ESP32" THEN failAt ELSE "none"
        seconds == IF plat = "ESP32" THEN registers[1] ELSE 0
        halted == seconds >= CH_BIT
        started == IF halted /\ plat = "ESP32" /\ fail \in {"writeRegister", "none"}
                   THEN [registers EXCEPT ![1] = IF fail = "none" THEN seconds % CH_BIT ELSE @]
                   ELSE registers
        bus == [self EXCEPT !.i2cInitialized_ = TRUE]
        currentTime == getCurrentDateTime(plat, bus, started, TRUE)
        timed == IF currentTime # EmptyString
                 THEN [bus EXCEPT !.hasValidTime_ = isValidTime(currentTime)]
                 ELSE bus
        loaded == loadPersistedData(plat, timed, ram, ok, stack)
    IN IF self.initialized_
       THEN [rtc |-> self, registers |-> registers, ret |-> TRUE]
       ELSE IF fail = "initializeI2C"
       THEN [rtc |-> self, registers |-> registers, ret |-> FALSE]
       ELSE IF fail \in {"isConnected", "readRegister"}
       THEN [rtc |-> bus, registers |-> registers, ret |-> FALSE]
       ELSE IF fail = "writeRegister" /\ halted
       THEN [rtc |-> bus, registers |-> registers, ret |-> FALSE]
       ELSE [rtc |-> [loaded EXCEPT !.initialized_ = TRUE],
             registers |-> started, ret |-> TRUE]

\* RTCTimeManager::cleanup
rtcCleanup(plat, self, ram, ok, torn) ==
    [rtc |-> [self EXCEPT !.i2cInitialized_ = FALSE, !.initialized_ = FALSE,
                          !.hasValidTime_ = FALSE],
     ram |-> savePersistedData(plat, self, ram, ok, torn)]

\* the outcomes of the bus operations of one setTimeFromNetwork call (a
\* write that fails has stored its first bytes) and the value of
\* std::time(nullptr)
SyncOutcome(readOk, writeOk, writeTorn, saveOk, saveTorn, now) ==
    [readOk |-> readOk, writeOk |-> writeOk, writeTorn |-> writeTorn,
     saveOk |-> saveOk, saveTorn |-> saveTorn, now |-> now]

\* setTimeFromNetwork counting the attempt before it parses the string
setTimeFromNetwork_CountsFailedParse(plat, self, registers, ram, networkTime, io) ==
    LET parsed == parseTimeString(networkTime)
        newTime == parsed.dateTime
        read == readDateTime(plat, registers, io.readOk)
        currentTime == read.dateTime
        hadValidTime == self.hasValidTime_ /\ read.ret
        written == writeDateTime(plat, registers, newTime, io.writeOk, io.writeTorn)
        driftSeconds == calculateDrift(currentTime, newTime)
        synced == [self EXCEPT !.totalDriftSeconds_ = IF hadValidTime THEN @ + abs(driftSeconds) ELSE @,
                               !.lastSyncTime_ = io.now,
                               !.syncAttempts_ = @ + 1,
                               !.successfulSyncs_ = @ + 1,
                               !.hasValidTime_ = TRUE]
        unchanged == [rtc |-> self, registers |-> registers, ram |-> ram,
                      ret |-> FALSE, hadValidTime |-> FALSE, driftSeconds |-> 0]
    IN IF ~self.initialized_ THEN unchanged
       ELSE IF ~parsed.ret
       THEN [unchanged EXCEPT !.rtc.syncAttempts_ = @ + 1]
       ELSE IF ~written.ret THEN [unchanged EXCEPT !.registers = written.mem]
       ELSE [rtc |-> synced, registers |-> written.mem,
             ram |-> savePersistedData(plat, synced, ram, io.saveOk, io.saveTorn),
             ret |-> TRUE, hadValidTime |-> hadValidTime,
             driftSeconds |-> IF hadValidTime THEN driftSeconds ELSE 0]

\* setTimeFromNetwork accumulating the drift with its sign
setTimeFromNetwork_SignedDrift(plat, self, registers, ram, networkTime, io) ==
    LET parsed == parseTimeString(networkTime)
        newTime == parsed.dateTime
        read == readDateTime(plat, registers, io.readOk)
        currentTime == read.dateTime
        hadValidTime == self.hasValidTime_ /\ read.ret
        written == writeDateTime(plat, registers, newTime, io.writeOk, io.writeTorn)
        driftSeconds == calculateDrift(currentTime, newTime)
        synced == [self EXCEPT !.totalDriftSeconds_ = IF hadValidTime THEN @ + driftSeconds ELSE @,
                               !.lastSyncTime_ = io.now,
                               !.syncAttempts_ = @ + 1,
                               !.successfulSyncs_ = @ + 1,
                               !.hasValidTime_ = TRUE]
        unchanged == [rtc |-> self, registers |-> registers, ram |-> ram,
                      ret |-> FALSE, hadValidTime |-> FALSE, driftSeconds |-> 0]
    IN IF ~self.initialized_ THEN unchanged
       ELSE IF ~parsed.ret THEN unchanged
       ELSE IF ~written.ret THEN [unchanged EXCEPT !.registers = written.mem]
       ELSE [rtc |-> synced, registers |-> written.mem,
             ram |-> savePersistedData(plat, synced, ram, io.saveOk, io.saveTorn),
             ret |-> TRUE, hadValidTime |-> hadValidTime,
             driftSeconds |-> IF hadValidTime THEN driftSeconds ELSE 0]

\* RTCTimeManager::setTimeFromNetwork: the service, the time registers and
\* the RAM of the chip afterwards, the result, and whether and which drift
\* was computed
setTimeFromNetwork(plat, self, registers, ram, networkTime, io) ==
    LET parsed == parseTimeString(networkTime)
        newTime == parsed.dateTime
        read == readDateTime(plat, registers, io.readOk)
        currentTime == read.dateTime
        hadValidTime == self.hasValidTime_ /\ read.ret
        written == writeDateTime(plat, registers, newTime, io.writeOk, io.writeTorn)
        driftSeconds == calculateDrift(currentTime, newTime)
        synced == [self EXCEPT !.totalDriftSeconds_ = IF hadValidTime THEN @ + abs(driftSeconds) ELSE @,
                               !.lastSyncTime_ = io.now,
                               !.syncAttempts_ = @ + 1,
                               !.successfulSyncs_ = @ + 1,
                               !.hasValidTime_ = TRUE]
        unchanged == [rtc |-> self, registers |-> registers, ram |-> ram,
                      ret |-> FALSE, hadValidTime |-> FALSE, driftSeconds |-> 0]
    IN IF ~self.initialized_ THEN unchanged
       ELSE IF ~parsed.ret THEN unchanged
       ELSE IF ~written.ret THEN [unchanged EXCEPT !.registers = written.mem]
       ELSE [rtc |-> synced, registers |-> written.mem,
             ram |-> savePersistedData(plat, synced, ram, io.saveOk, io.saveTorn),
             ret |-> TRUE, hadValidTime |-> hadValidTime,
             driftSeconds |-> IF hadValidTime THEN driftSeconds ELSE 0]

\* an RTCSyncStats; the average is truncated to whole seconds
RTCSyncStats ==
    [lastSyncTime |-> 0, syncAttempts |-> 0, successfulSyncs |-> 0,
     failedSyncs |-> 0, totalDriftSeconds |-> 0, averageDriftSeconds |-> 0]

\* RTCTimeManager::getSyncStats, undisturbed
getSyncStats(self) ==
    [lastSyncTime |-> self.lastSyncTime_,
     syncAttempts |-> self.syncAttempts_,
     successfulSyncs |-> self.successfulSyncs_,
     failedSyncs |-> self.syncAttempts_ - self.successfulSyncs_,
     totalDriftSeconds |-> self.totalDriftSeconds_,
     averageDriftSeconds |-> IF self.successfulSyncs_ > 0
                             THEN self.totalDriftSeconds_ \div self.successfulSyncs_
                             ELSE 0]

\* ------------------------------------------------------------------------
\* The RTC Time Sync Service as a state machine
\* ------------------------------------------------------------------------
\* successful synchronisations made since the start
MaxSyncs == 2

\* std::time(nullptr) at the first synchronisation; one second passes
\* between two synchronisations
FirstSyncEpoch == 1700000000

\* the date and time the network reports: 2024-01-15 10:30:00
NetworkDateTime == DateTime(24, 1, 15, 10, 30, 0)

\* the strings a caller passes to setTimeFromNetwork: that date and time in
\* each layout, and a string that is no time
NetworkTimes ==
    { TimeString(format, 2024, 1, 15, 10, 30, 0) : format \in {"ISO", "ISO_Z", "ALT"} }
    \cup { getNetworkTime(2024, 1, 15, 10, 30, 0),
           TimeString("TEXT", 0, 0, 0, 0, 0, 0) }

\* the times a running clock of the chip shows: 2 s behind and 7 s ahead of
\* the network time
HardwareTimes ==
    { DateTime(24, 1, 15, 10, 29, 58),
      DateTime(24, 1, 15, 10, 30, 7) }

\* the time registers of a chip that lost its power: the default time, the
\* oscillator halted
HaltedRegisters == <<CH_BIT, 0, 0, 1, 1, 1, 0>>

\* RAM of the chip that was never written
BlankRam == <<0, 0, 0, 0, 0, 0, 0, 0, 0, 0, 0, 0>>

\* the record a service left behind that had made 65535 synchronisations
FullRecord ==
    PersistedBytes([RtcConstructed EXCEPT !.syncAttempts_ = 65535,
                                          !.successfulSyncs_ = 65535,
                                          !.totalDriftSeconds_ = 70000])

\* what the RAM of the chip holds when the program starts
InitialRam == {BlankRam, FullRecord}

\* what the 12-byte buffer of loadPersistedData can hold before it is
\* filled: zeros, or bytes another call left on the stack
IndeterminateBuffers ==
    {BlankRam, <<MAGIC_HI, MAGIC_LO, 0, 1, 0, 2, 0, 0, 0, 5, 0, 0>>}

\* how many bytes a broken-off write of count bytes has stored: none, or
\* half of them
TornWrites(count) == {0, count \div 2}

\* the bus operation that fails during a setTimeFromNetwork call, if one
\* does: the read of the time, the write of the time, the write of the record
SyncFaults == {"none", "readDateTime", "writeDateTime", "writeEEPROM"}

\* no call made yet. Of a call: its name, the string passed, the bus
\* operation that failed, whether the bytes read as the record started with
\* the magic number, the result, and the drift computed
NoSyncCall ==
    [op |-> "none", networkTime |-> EmptyString, fault |-> "none",
     magic |-> FALSE, ret |-> FALSE, hadValidTime |-> FALSE, driftSeconds |-> 0]

\* the last call was op, without a time string, and returned ret
SyncCalled(op, ret) == [NoSyncCall EXCEPT !.op = op, !.ret = ret]

\* the three persisted counters of a service
Counters(self) ==
    [syncAttempts |-> self.syncAttempts_,
     successfulSyncs |-> self.successfulSyncs_,
     totalDriftSeconds |-> self.totalDriftSeconds_]

\* no save has handed a whole record to the chip
NoSave ==
    [whole |-> FALSE, lost |-> FALSE, recovered |-> FALSE,
     counters |-> Counters(RtcConstructed)]

\* what is known of the record after a save of self that follows before:
\* the save wrote the whole record (ok), recovering from a write lost
\* during a synchronisation, or it failed, during a synchronisation (inSync)
\* or a cleanup
SaveOf(before, self, ok, inSync) ==
    IF ok
    THEN [whole |-> TRUE, lost |-> FALSE, recovered |-> before.lost,
          counters |-> Counters(self)]
    ELSE [NoSave EXCEPT !.lost = inSync \/ before.lost]

\* seconds between two times of the same month, whichever is later
SecondsApart(a, b) ==
    LET secondsA == ((((a.date * 24) + a.hours) * 60) + a.minutes) * 60 + a.seconds
        secondsB == ((((b.date * 24) + b.hours) * 60) + b.minutes) * 60 + b.seconds
    IN IF secondsA < secondsB THEN secondsB - secondsA ELSE secondsA - secondsB

\* a session starts with the total drift base, valid telling whether the
\* chip showed a valid time, and no synchronisation: so far no seconds between the clock of the chip and the network time, in the
\* synchronisations made with a valid time (counted) and in all of them
SessionFrom(base, valid) ==
    [base |-> base, valid |-> valid, syncs |-> 0, counted |-> 0, all |-> 0]

\* the locals of a setTimeFromNetwork call before it computes them
NoSyncLocal == [hadValidTime |-> FALSE, driftSeconds |-> 0]

\* no thread is inside the RTCTimeManager
NoThreads ==
    /\ syncPc = "idle"
    /\ syncLocal = NoSyncLocal
    /\ statsPc = "idle"
    /\ statsLocal = RTCSyncStats
    /\ history = {Counters(RtcConstructed)}

\* the RTCTimeManager after construction, beside a chip that lost its power
SyncInit ==
    /\ rtc = RtcConstructed
    /\ timeRegisters = HaltedRegisters
    /\ chipRam = BlankRam
    /\ syncCall = NoSyncCall
    /\ syncCount = 0
    /\ session = SessionFrom(0, FALSE)
    /\ saved = NoSave
    /\ syncStats = RTCSyncStats
    /\ NoThreads

\* no getNightSleepDuration() call made yet
NoRtcCall == [made |-> FALSE, hour |-> 0, time |-> FormatTime(0, FALSE), ret |-> 0]

\* the RTCTimeManager after construction
RtcInit ==
    /\ sleepSchedule_ = SleepSchedule
    /\ rtcCall = NoRtcCall
    /\ SyncInit

\* ------------------------------------------------------------------------
\* Battery Safety Monitor (bq34z100_battery_monitor.cpp)
\* ------------------------------------------------------------------------
\* Config::BAT_* of main.h, the limits the constructor stores
BAT_LOW_SOC == 10
BAT_HIGH_SOC == 101
BAT_LOW_SOH == 50
BAT_LOW_BOARD_TEMP == 2
BAT_HIGH_BOARD_TEMP == 30
BAT_LOW_CELL_TEMP == 4
BAT_HIGH_CELL_TEMP == 30

\* safetyLimits_ as the constructor sets it
SafetyLimits ==
    [minSoC |-> BAT_LOW_SOC, maxSoC |-> BAT_HIGH_SOC, minSoH |-> BAT_LOW_SOH,
     minCellTemp |-> BAT_LOW_CELL_TEMP, maxCellTemp |-> BAT_HIGH_CELL_TEMP,
     minBoardTemp |-> BAT_LOW_BOARD_TEMP, maxBoardTemp |-> BAT_HIGH_BOARD_TEMP]

\* BQ34z100BatteryMonitor::readRegister: the development build answers with
\* fixed mock data; the ESP32 build, its bus transfer commented out, with 0
readRegister(plat, reg) ==
    IF plat = "ESP32" THEN 0
    ELSE CASE reg = "VOLTAGE" -> 12500
           [] reg = "STATE_OF_CHARGE" -> 75
           [] reg = "STATE_OF_HEALTH" -> 95
           [] reg = "TEMPERATURE" -> 2980
           [] reg = "PCB_TEMPERATURE" -> 2980
           [] reg = "REMAINING_CAPACITY" -> 1500
           [] reg = "CYCLE_COUNT" -> 42
           [] reg = "AVG_TIME_TO_EMPTY" -> 180
           [] OTHER -> 0

\* BQ34z100BatteryMonitor::convertTemperature followed by the cast to
\* uint16_t of readBatteryStatus: tenths of a kelvin to whole degrees
\* Celsius (raw * 0.1 - 273.15, truncated).  The only raw value a found
\* device delivers is the mock 2980.
convertTemperature(rawValue) == ((rawValue * 10) - 27315) \div 100

\* the fields of EnhancedBatteryStatus that readBatteryStatus fills and
\* checkSafetyLimits examines
EnhancedBatteryStatus(plat) ==
    [voltage |-> readRegister(plat, "VOLTAGE"),
     stateOfCharge |-> readRegister(plat, "STATE_OF_CHARGE") % 256,
     stateOfHealth |-> readRegister(plat, "STATE_OF_HEALTH"),
     cellTemperature |-> convertTemperature(readRegister(plat, "TEMPERATURE")),
     boardTemperature |-> convertTemperature(readRegister(plat, "PCB_TEMPERATURE"))]

\* BQ34z100BatteryMonitor::checkSafetyLimits
checkSafetyLimits(limits, status) ==
    /\ ~(status.stateOfCharge < limits.minSoC \/ status.stateOfCharge > limits.maxSoC)
    /\ ~(status.stateOfHealth < limits.minSoH)
    /\ ~(status.cellTemperature < limits.minCellTemp
           \/ status.cellTemperature > limits.maxCellTemp)
    /\ ~(status.boardTemperature < limits.minBoardTemp
           \/ status.boardTemperature > limits.maxBoardTemp)

\* BQ34z100BatteryMonitor::scanI2CDevices: the development build finds its
\* mock devices; the ESP32 build, its scan commented out, finds none
scanI2CDevices(plat) == plat = "GENERIC"

\* the frames of one thread inside the monitor, the innermost last, and what
\* the innermost frame has just been handed: the call that entered it, or
\* the return or the exception of the call it made
NoFrames == <<>>

\* frames the stack of the thread has room for
MaxStackDepth == 12

\* limits handed to setSafetyLimits: the defaults, a higher minimum state of
\* charge, a lower maximum cell temperature
SafetyLimitInputs ==
    { SafetyLimits,
      [SafetyLimits EXCEPT !.minSoC = 80],
      [SafetyLimits EXCEPT !.maxCellTemp = 20] }

\* the monitor after construction, no call in progress
BatteryInit ==
    /\ deviceFound_ = FALSE
    /\ safetyLimits_ = SafetyLimits
    /\ batteryStack = NoFrames
    /\ batterySignal = "idle"
    /\ limitExceeded = FALSE
    /\ emergencySleeps = 0

\* ------------------------------------------------------------------------
\* Operation Cycle Orchestrator (main.cpp)
\* ------------------------------------------------------------------------
\* powerConfig.criticalBatteryThreshold and powerConfig.lowBatteryThreshold
\* as initializeConfiguration sets them, in percent
criticalBatteryThreshold == 10
lowBatteryThreshold == 20

\* what batteryMonitor->getBatteryStatus() hands the orchestrator: a state
\* of charge in percent, or a std::exception thrown
BatteryReading(throws, stateOfCharge) ==
    [throws |-> throws, stateOfCharge |-> stateOfCharge]

BatteryReadings ==
    { BatteryReading(FALSE, 5), BatteryReading(FALSE, 15),
      BatteryReading(FALSE, 75), BatteryReading(TRUE, 0) }

\* ForestryResearchApplication::checkBatteryStatus: its result, whether it
\* sets emergencyStop, and whether it asks the PowerManager for a deep sleep
\* (which on the ESP32 build does not return)
checkBatteryStatus_FailureStops(monitor, reading) ==
    IF ~monitor THEN [ret |-> TRUE, emergencyStop |-> FALSE, deepSleep |-> FALSE]
    ELSE IF reading.throws
    THEN [ret |-> FALSE, emergencyStop |-> TRUE, deepSleep |-> FALSE]
    ELSE IF reading.stateOfCharge < criticalBatteryThreshold
    THEN [ret |-> FALSE, emergencyStop |-> TRUE, deepSleep |-> TRUE]
    ELSE [ret |-> TRUE, emergencyStop |-> FALSE, deepSleep |-> FALSE]

checkBatteryStatus(monitor, reading) ==
    IF ~monitor THEN [ret |-> TRUE, emergencyStop |-> FALSE, deepSleep |-> FALSE]
    ELSE IF reading.throws
    THEN [ret |-> TRUE, emergencyStop |-> FALSE, deepSleep |-> FALSE]
    ELSE IF reading.stateOfCharge < criticalBatteryThreshold
    THEN [ret |-> FALSE, emergencyStop |-> TRUE, deepSleep |-> TRUE]
    ELSE [ret |-> TRUE, emergencyStop |-> FALSE, deepSleep |-> FALSE]

\* main loop iterations one run of the model follows
MaxCycles == 3

\* no checkBatteryStatus() made yet
NoBatteryCheck == [made |-> FALSE, reading |-> BatteryReading(FALSE, 75), ret |-> TRUE]

\* the application when runMainLoop() starts
AppInit ==
    /\ appPc = "while"
    /\ currentState = "RUNNING"
    /\ shouldShutdown = FALSE
    /\ emergencyStop = FALSE
    /\ batteryCheck = NoBatteryCheck
    /\ cycles = 0

\* ------------------------------------------------------------------------
\* CellularManager (cellular_manager.cpp): the SIM7600X modem on a UART
\* ------------------------------------------------------------------------
DEFAULT_COMMAND_TIMEOUT == 5000
DEFAULT_MAX_RETRIES == 3

\* what the modem sends is a sequence of lines; a line is its text and, for
\* "+CREG: <n>,<stat>", the registration status it carries
Line(text, stat) == [text |-> text, stat |-> stat]
Ok == Line("OK", 0)
Error == Line("ERROR", 0)
Ready == Line("READY", 0)               \* "+CPIN: READY"
SimPin == Line("SIM PIN", 0)            \* "+CPIN: SIM PIN"
PdpActive == Line("+CGACT: 1,1", 0)
Creg(stat) == Line("+CREG", stat)

\* registration statuses of 3GPP TS 27.007: 0 not searching, 1 home,
\* 2 searching, 3 denied, 5 roaming
RegistrationStatuses == {0, 1, 2, 3, 5}

\* std::string::find(text) on a response
Find(response, text) == \E i \in DOMAIN response : response[i].text = text

\* the lines that end readSerialResponse's loop ("OK\r\n", "ERROR")
Terminators == {"OK", "ERROR"}

\* the position of the first line of a response that ends the read, 0 if none
RECURSIVE FirstTerminator(_, _)
FirstTerminator(lines, i) ==
    IF i > Len(lines) THEN 0
    ELSE IF lines[i].text \in Terminators THEN i
    ELSE FirstTerminator(lines, i + 1)

\* CellularManager::readSerialResponse; arriving is what the UART holds or
\* receives before the timeout.  The ESP32 build takes bytes from the UART
\* until a terminator is among them or the time is up, and leaves the rest
\* in the UART; the development build answers "OK\r\n" whatever was sent.
readSerialResponse(plat, arriving, timeoutMs) ==
    IF plat = "ESP32"
    THEN LET end == FirstTerminator(arriving, 1) IN
         IF timeoutMs = 0 THEN [response |-> <<>>, rest |-> arriving, waitedMs |-> 0]
         ELSE IF end = 0
         THEN [response |-> arriving, rest |-> <<>>, waitedMs |-> timeoutMs]
         ELSE [response |-> SubSeq(arriving, 1, end),
               rest |-> SubSeq(arriving, end + 1, Len(arriving)),
               waitedMs |-> timeoutMs]
    ELSE [response |-> IF timeoutMs > 0 THEN <<Ok>> ELSE <<>>,
          rest |-> <<>>, waitedMs |-> 0]

\* CellularManager::sendATCommand; reply is what the modem sends after each
\* transmission of the command.  Every attempt empties the UART, sends the
\* command and reads one response; the result carries what is left unread
\* in the UART and an upper bound of the time spent waiting.
sendATCommand(plat, self, expectedResponse, maxAttempts, timeoutMs, reply) ==
    LET timeout == IF timeoutMs = 0 THEN self.commandTimeoutMs_ ELSE timeoutMs
        read == readSerialResponse(plat, reply, timeout)
        found == Find(read.response, expectedResponse)
        failed == Find(read.response, "ERROR")
        made == IF found \/ failed THEN 1 ELSE maxAttempts
    IN  IF ~self.serialHandle_ \/ maxAttempts <= 0
        THEN [ret |-> FALSE, rest |-> <<>>, waitedMs |-> 0]
        ELSE [ret |-> found, rest |-> read.rest,
              waitedMs |-> made * read.waitedMs + (made - 1) * 500]

\* the status std::regex_search finds with \+CREG:\s*\d+,(\d+): that of the
\* first such line, -1 if there is none
RECURSIVE CregStatus(_, _)
CregStatus(response, i) ==
    IF i > Len(response) THEN -1
    ELSE IF response[i].text = "+CREG" THEN response[i].stat
    ELSE CregStatus(response, i + 1)

\* the polls checkNetworkRegistration makes at most
maxAttempts == 60

\* one pass of the loop of CellularManager::checkNetworkRegistration: reply
\* is what the modem sends in answer to AT+CREG?, late what the UART receives
\* after it during the readSerialResponse(2000) that follows.  The outcome is
\* "true" or "false" for a return, "again" for the sleep and attempts++.
RegistrationPoll(plat, self, reply, late) ==
    LET sent == sendATCommand(plat, self, "OK", 3, 0, reply)
        read == readSerialResponse(plat, sent.rest \o late, 2000)
        status == IF sent.ret THEN CregStatus(read.response, 1) ELSE -1
    IN  [outcome |-> IF status \in {1, 5} THEN "true"
                     ELSE IF status = 3 THEN "false" ELSE "again",
         roaming |-> (status = 5),
         waitedMs |-> sent.waitedMs + (IF sent.ret THEN read.waitedMs ELSE 0) + 1000]

\* CellularManager::checkSIMReady; reply is the modem's answer to AT+CPIN?
checkSIMReady(plat, self, reply) ==
    sendATCommand(plat, self, "READY", 3, 0, reply).ret

\* CellularManager::activatePDPContext; state is the modem's answer to
\* AT+CGACT?, reply its answer to AT+CGACT=1,1
activatePDPContext(plat, self, state, reply) ==
    \/ sendATCommand(plat, self, "+CGACT: 1,1", 3, 0, state).ret
    \/ sendATCommand(plat, self, "OK", 3, 10000, reply).ret

\* what the modem answers to a command that asks for nothing but "OK"
PlainReplies == {<<>>, <<Error>>, <<Ok>>}

\* what the modem answers to AT+CPIN?
SimReplies == {<<>>, <<Error>>, <<Ready, Ok>>, <<SimPin, Ok>>}

\* what the modem answers to AT+CREG?
CregReplies == {<<>>, <<Error>>} \cup {<<Creg(stat), Ok>> : stat \in RegistrationStatuses}

\* what the UART receives after that answer, within the two seconds of the
\* second read
LateLines == {<<>>} \cup {<<Creg(stat)>> : stat \in RegistrationStatuses}

\* what the modem answers to AT+CGACT?
PdpReplies == {<<>>, <<Ok>>, <<PdpActive, Ok>>}

\* no call of the CellularManager made yet
NoCellCall == [op |-> "none", ret |-> "none", reported |-> -1, waitedMs |-> 0]

\* a call of the CellularManager and its result
CellCalled(op, ret) ==
    [op |-> op, ret |-> IF ret THEN "true" ELSE "false", reported |-> -1, waitedMs |-> 0]

\* the CellularManager after construction
CellInit ==
    /\ cellular = [initialized_ |-> FALSE, connected_ |-> FALSE,
                   serialHandle_ |-> FALSE, roaming |-> FALSE,
                   maxRetries_ |-> DEFAULT_MAX_RETRIES,
                   commandTimeoutMs_ |-> DEFAULT_COMMAND_TIMEOUT]
    /\ connectPc = "idle"
    /\ attempts = 0
    /\ cellCall = NoCellCall

\* ------------------------------------------------------------------------
\* Logger (logger.cpp): the queue, its mutex and the logger thread
\* ------------------------------------------------------------------------
\* log() calls one run of the model follows, those of logSystemShutdown
\* apart
MaxEntries == 2

\* the info() calls of Logger::logSystemShutdown
ShutdownLines == 5

\* the sequence first + 1 .. last
RECURSIVE Run(_, _)
Run(first, last) == IF first >= last THEN <<>> ELSE <<first + 1>> \o Run(first + 1, last)

\* entries are numbered in the order log() pushes them; Upto(log, pending)
\* is what a log holds of the entries 1 .. pending
RECURSIVE Upto(_, _)
Upto(log, pending) ==
    IF log = <<>> THEN <<>>
    ELSE IF Head(log) <= pending THEN <<Head(log)>> \o Upto(Tail(log), pending)
    ELSE Upto(Tail(log), pending)

\* no flush() or shutdown() called yet
NoLogCall == [pending |-> 0, queued |-> FALSE, running |-> FALSE]

\* what a flush() or shutdown() call finds: the entries pushed so far,
\* whether any is queued, and whether the logger thread is running and has
\* not been asked to stop
LogCall(pushed, queue, thread, stopping) ==
    [pending |-> pushed, queued |-> (queue # <<>>),
     running |-> (thread \notin {"none", "done"} /\ ~stopping)]

\* the Logger after construction: asyncLogging_(true),
\* shutdownRequested_(false), no thread
LoggerInit ==
    /\ logQueue_ = <<>>
    /\ enqueued = 0
    /\ writtenLog = <<>>
    /\ shutdownRequested_ = FALSE
    /\ queueMutex_ = "free"
    /\ loggerPc = "none"
    /\ entryHeld = 0
    /\ notified = FALSE
    /\ flushPc = "idle"
    /\ flushCall = NoLogCall
    /\ shutdownPc = "idle"
    /\ shutdownLines = 0
    /\ shutdownCall = NoLogCall

\* ------------------------------------------------------------------------
\* SDCardManager (sdcard_manager.cpp): writeFileAtomic
\* ------------------------------------------------------------------------
\* a file of the card: whether it exists, and its bytes
FileOf(content) == [exists |-> TRUE, content |-> content]
Missing == [exists |-> FALSE, content |-> <<>>]

\* the data the callers write
FileData == {<<>>, <<1, 2>>, <<3>>}

\* SDCardManager::writeToFile(fullPath, data, false): opened is whether the
\* file could be opened, which truncates it, count the bytes that reached it
writeToFile(file, data, opened, count) ==
    IF ~opened THEN [file |-> file, ret |-> FALSE]
    ELSE [file |-> FileOf(SubSeq(data, 1, count)), ret |-> (count = Len(data))]

\* SDCardManager::deleteFile on a file that exists: removed is whether the
\* card removes it
deleteFile(file, removed) == IF removed THEN Missing ELSE file

\* SDCardManager::writeFileAtomic(filename, data): files.file is the file
\* of that name, files.temp the file filename + ".tmp"; removed is whether
\* the card removes the original, renamed whether it renames the temporary
\* file, cleaned whether it removes the temporary file afterwards
writeFileAtomic(self, files, data, opened, count, removed, renamed, cleaned) ==
    LET temp == writeToFile(files.temp, data, opened, count)
        original == IF files.file.exists THEN deleteFile(files.file, removed)
                    ELSE files.file
    IN  IF ~self.initialized_ THEN [files |-> files, ret |-> FALSE]
        ELSE IF ~temp.ret THEN [files |-> [files EXCEPT !.temp = temp.file], ret |-> FALSE]
        ELSE IF renamed THEN [files |-> [file |-> temp.file, temp |-> Missing], ret |-> TRUE]
        ELSE [files |-> [file |-> original, temp |-> deleteFile(temp.file, cleaned)],
              ret |-> FALSE]

\* no call of the SDCardManager made yet
NoSdCall == [op |-> "none", before |-> Missing, data |-> <<>>, ret |-> FALSE]

\* the SDCardManager after construction, the card without the file
SdInit ==
    /\ sdcard = [initialized_ |-> FALSE]
    /\ sdFiles = [file |-> Missing, temp |-> Missing]
    /\ sdCall = NoSdCall

\* the other services after construction
ServiceInit ==
    /\ BatteryInit
    /\ AppInit
    /\ CellInit
    /\ LoggerInit
    /\ SdInit

\* the PowerManager after construction, on either build
PowerInit ==
    /\ platform \in Platforms
    /\ resetReason = "POWER_ON"
    /\ pc = "active"
    /\ initialized_ = FALSE
    /\ emergencyMode_ = FALSE
    /\ peripheralConfig_ = PeripheralConfig
    /\ powerConfig_ = PowerConfig
    /\ powerStats_ = PowerStats
    /\ accumulatedSleepTime_ = 0
    /\ accumulatedActiveTime_ = 0
    /\ watchdogHandle_ = FALSE
    /\ gpioLevel = 1
    /\ gpioHold = FALSE
    /\ call = [op |-> "boot", args |-> NoArgs, ret |-> "void"]
    /\ railLog = <<>>
    /\ sleepLog = <<>>
    /\ upLog = <<>>
    /\ stats = PowerStats

Init == PowerInit /\ RtcInit /\ ServiceInit

Initialize ==
    \E hwOk \in BOOLEAN, wdOk \in BOOLEAN, cause \in {"Timer wakeup"} :
        /\ platform = "GENERIC" => hwOk /\ wdOk
        /\ Called("initialize", NoArgs,
                  initialize(platform, Self, hwOk, wdOk, resetReason, cause))

EnablePeripherals ==
    Called("enablePeripherals", NoArgs, enablePeripherals(platform, Self))

DisablePeripherals ==
    Called("disablePeripherals", NoArgs, disablePeripherals(platform, Self))

Set5VSupply ==
    \E enabled \in BOOLEAN :
        Called("set5VSupply", [NoArgs EXCEPT !.flag = enabled],
               set5VSupply(platform, Self, enabled))

ConfigurePeripherals ==
    \E config \in ConfigInputs :
        Called("configurePeripherals", NoArgs,
               configurePeripherals(platform, Self, config))

EnterSleep ==
    \E sleepTimeUs \in SleepRequests, activeDuration \in ActiveDurations :
        /\ MaySleep
        /\ Called("enterSleep", [NoArgs EXCEPT !.us = sleepTimeUs],
                  enterSleep(platform, Self, sleepTimeUs, activeDuration))

EnterDeepSleep ==
    \E sleepTimeUs \in SleepRequests, wakeupSources \in WakeupMasks,
       activeDuration \in ActiveDurations :
        /\ MaySleep
        /\ Called("enterDeepSleep",
                  [NoArgs EXCEPT !.us = sleepTimeUs, !.mask = wakeupSources],
                  enterDeepSleep(platform, Self, sleepTimeUs, wakeupSources,
                                 activeDuration))

\* a light sleep that ran until the timer fired lasted the clamped duration,
\* one that was refused or ended by another wake source lasted actualSleepTime
EnterLightSleep ==
    \E sleepTimeUs \in SleepRequests, activeDuration \in ActiveDurations,
       espOk \in BOOLEAN, wakeupReason \in WakeupReasons :
        LET t == validateSleepDuration(powerConfig_, sleepTimeUs)
            outcome == LightSleepOutcome(platform, espOk, wakeupReason)
        IN
        /\ MaySleep
        /\ platform = "GENERIC" => espOk /\ wakeupReason = "TIMER"
        /\ Called("enterLightSleep", [NoArgs EXCEPT !.us = sleepTimeUs],
                  enterLightSleep(platform, Self, sleepTimeUs, activeDuration,
                                  espOk, wakeupReason,
                                  IF outcome = "timerWake" THEN t ELSE 0))

CheckBatteryLevel ==
    \E batteryPercent \in BatteryPercents, activeDuration \in ActiveDurations :
        /\ batteryPercent <= powerConfig_.criticalBatteryThreshold
              /\ ~emergencyMode_ /\ initialized_ => MaySleep
        /\ Called("checkBatteryLevel", [NoArgs EXCEPT !.percent = batteryPercent],
                  checkBatteryLevel(platform, Self, batteryPercent, activeDuration))

EnterEmergencyMode ==
    \E activeDuration \in ActiveDurations :
        /\ ~emergencyMode_ /\ initialized_ => MaySleep
        /\ Called("enterEmergencyMode", NoArgs,
                  enterEmergencyMode(platform, Self, activeDuration))

Shutdown ==
    \E emergency \in BOOLEAN, activeDuration \in ActiveDurations :
        /\ ~emergency /\ initialized_ => MaySleep
        /\ Called("shutdown", [NoArgs EXCEPT !.flag = emergency],
                  shutdown(platform, Self, emergency, activeDuration))

ConfigureGPIOHolds ==
    Called("configureGPIOHolds", NoArgs, configureGPIOHolds(platform, Self))

EnableGPIOHold ==
    \E state \in BOOLEAN :
        Called("enableGPIOHold", [NoArgs EXCEPT !.flag = state],
               enableGPIOHold(platform, Self, state))

DisableAllGPIOHolds ==
    Called("disableAllGPIOHolds", NoArgs, disableAllGPIOHolds(platform, Self))

\* the wake from an ESP32 deep sleep: the chip resets and the program starts
\* again with a newly constructed controller; a held pin keeps its level,
\* an unheld one returns to its pull-up
Reboot ==
    /\ pc = "asleep"
    /\ resetReason' = "DEEP_SLEEP"
    /\ Becomes(Constructed(IF gpioHold THEN gpioLevel ELSE 1, gpioHold))
    /\ call' = [op |-> "boot", args |-> NoArgs, ret |-> "void"]
    /\ upLog' = <<>>
    /\ stats' = PowerStats
    /\ UNCHANGED serviceVars
    /\ UNCHANGED <<platform, rtcVars>>

Next ==
    \/ Initialize
    \/ EnablePeripherals
    \/ DisablePeripherals
    \/ Set5VSupply
    \/ ConfigurePeripherals
    \/ EnterSleep
    \/ EnterDeepSleep
    \/ EnterLightSleep
    \/ CheckBatteryLevel
    \/ EnterEmergencyMode
    \/ Shutdown
    \/ Reboot

Spec == Init /\ [][Next]_vars

\* the controller with its GPIO hold operations as well
HoldNext ==
    \/ Next
    \/ ConfigureGPIOHolds
    \/ EnableGPIOHold
    \/ DisableAllGPIOHolds

HoldSpec == Init /\ [][HoldNext]_vars

\* ------------------------------------------------------------------------
\* The controller's statistics: sleeps with measured active and sleep times,
\* and getPowerStats
\* ------------------------------------------------------------------------
\* wakeup events counted in one session before the measured sleeps stop
MaxStatsWakeups == 4

\* active periods (ms) measured between a wake and a sleep
StatsActiveDurations == {0, 100}

\* requested durations of the measured sleeps
StatsSleepRequests == {MIN_SLEEP_DURATION, 3 * MIN_SLEEP_DURATION}

\* time (ms) a light sleep lasted when another wake source ended it
EarlyWakeTimes == {0, 900}

StatsMaySleep == powerStats_.wakeupEvents < MaxStatsWakeups

MeasuredDeepSleep ==
    \E sleepTimeUs \in StatsSleepRequests,
       activeDuration \in StatsActiveDurations :
        /\ StatsMaySleep
        /\ Called("enterDeepSleep",
                  [NoArgs EXCEPT !.us = sleepTimeUs, !.mask = WAKEUP_TIMER],
                  enterDeepSleep(platform, Self, sleepTimeUs, WAKEUP_TIMER,
                                 activeDuration))

MeasuredLightSleep ==
    \E sleepTimeUs \in StatsSleepRequests,
       activeDuration \in StatsActiveDurations,
       espOk \in BOOLEAN, wakeupReason \in WakeupReasons,
       early \in EarlyWakeTimes :
        LET t == validateSleepDuration(powerConfig_, sleepTimeUs)
            outcome == LightSleepOutcome(platform, espOk, wakeupReason)
        IN
        /\ StatsMaySleep
        /\ platform = "GENERIC" => espOk /\ wakeupReason = "TIMER"
        /\ Called("enterLightSleep", [NoArgs EXCEPT !.us = sleepTimeUs],
                  enterLightSleep(platform, Self, sleepTimeUs, activeDuration,
                                  espOk, wakeupReason,
                                  IF outcome = "timerWake" THEN t
                                  ELSE IF outcome = "otherWake" THEN early
                                  ELSE 0))

GetPowerStats ==
    /\ pc = "active"
    /\ Becomes(Self)
    /\ call' = [op |-> "getPowerStats", args |-> NoArgs, ret |-> "void"]
    /\ upLog' = <<>>
    /\ stats' = getPowerStats(Self)
    /\ UNCHANGED serviceVars
    /\ UNCHANGED <<platform, resetReason, rtcVars>>

StatsNext ==
    \/ Initialize
    \/ MeasuredDeepSleep
    \/ MeasuredLightSleep
    \/ GetPowerStats
    \/ Reboot

StatsSpec == Init /\ [][StatsNext]_vars

\* ------------------------------------------------------------------------
\* The Sleep Schedule Evaluator
\* ------------------------------------------------------------------------
\* the RTCTimeManager after setSleepSchedule(schedule) for a schedule of
\* ScheduleInputs (setSleepSchedule stores its argument as it is), beside a
\* newly constructed PowerManager of the development build
ScheduleInit ==
    /\ PowerInit
    /\ ServiceInit
    /\ platform = "GENERIC"
    /\ sleepSchedule_ \in ScheduleInputs
    /\ rtcCall = NoRtcCall
    /\ SyncInit

\* a getNightSleepDuration call with the time string of the given hour,
\* well formed or not
GetNightSleepDuration ==
    \E hour \in Hours, wellFormed \in BOOLEAN :
        LET currentTime == FormatTime(hour, wellFormed) IN
        /\ rtcCall' = [made |-> TRUE, hour |-> hour, time |-> currentTime,
                       ret |-> getNightSleepDuration(sleepSchedule_, currentTime)]
        /\ UNCHANGED serviceVars
        /\ UNCHANGED <<powerVars, sleepSchedule_, syncVars, raceVars>>

ScheduleNext == GetNightSleepDuration

ScheduleSpec == ScheduleInit /\ [][ScheduleNext]_vars

\* ------------------------------------------------------------------------
\* The RTC Time Sync Service: its calls, the running clock and the restart
\* ------------------------------------------------------------------------
\* the time the registers show, as an ISO string
ShownTime(registers) ==
    LET t == readDateTime("ESP32", registers, TRUE).dateTime
    IN TimeString("ISO", 2000 + t.year, t.month, t.date, t.hours, t.minutes, t.seconds)

\* a newly constructed RTCTimeManager beside a newly constructed
\* PowerManager, on either build; the chip holds any of the initial
\* contents
RtcSyncInit ==
    /\ PowerInit
    /\ ServiceInit
    /\ sleepSchedule_ = SleepSchedule
    /\ rtcCall = NoRtcCall
    /\ rtc = RtcConstructed
    /\ timeRegisters \in {HaltedRegisters, TimeRegisters(NetworkDateTime)}
    /\ chipRam \in InitialRam
    /\ syncCall = NoSyncCall
    /\ syncCount = 0
    /\ session = SessionFrom(0, FALSE)
    /\ saved = NoSave
    /\ syncStats = RTCSyncStats
    /\ NoThreads

\* initialize(): the 5V rail is switched on through the PowerManager when it
\* is off, then the chip is probed and the persisted record loaded; with
\* threads, the counters it leaves start the history
InitializeCall(threads) ==
    \E fault \in InitializeFailures \cup {"readEEPROM"}, stack \in IndeterminateBuffers :
        LET failAt == IF fault = "readEEPROM" THEN "none" ELSE fault
            ok == fault # "readEEPROM"
            out == rtcInitialize(platform, rtc, timeRegisters, chipRam, failAt, ok, stack)
            powered == IF rtc.initialized_ \/ is5VSupplyEnabled(platform, Self)
                       THEN Self ELSE set5VSupply(platform, Self, TRUE)
            seen == IF platform = "ESP32" THEN chipRam ELSE stack
        IN
        /\ platform = "GENERIC" => fault = "none"
        /\ platform = "ESP32" => stack = BlankRam
        /\ Becomes(powered)
        /\ rtc' = out.rtc
        /\ timeRegisters' = out.registers
        /\ syncCall' = [SyncCalled("initialize", out.ret) EXCEPT
                            !.fault = fault,
                            !.magic = seen[1] = MAGIC_HI /\ seen[2] = MAGIC_LO]
        /\ session' = IF ~rtc.initialized_ /\ out.ret
                      THEN SessionFrom(out.rtc.totalDriftSeconds_,
                                       isValidTime(ShownTime(out.registers)))
                      ELSE session
        /\ UNCHANGED serviceVars
        /\ UNCHANGED <<platform, resetReason, call, upLog, stats, sleepSchedule_,
                       rtcCall, chipRam, syncCount, saved, syncStats, syncPc,
                       syncLocal, statsPc, statsLocal>>
        /\ history' = IF threads /\ ~rtc.initialized_ /\ out.ret
                      THEN {Counters(out.rtc)} ELSE history

RtcInitialize == InitializeCall(FALSE)

\* cleanup()
RtcCleanup ==
    \E ok \in BOOLEAN, torn \in TornWrites(12) :
        LET out == rtcCleanup(platform, rtc, chipRam, ok, torn) IN
        /\ ok => torn = 0
        /\ platform = "GENERIC" => ok
        /\ rtc' = out.rtc
        /\ chipRam' = out.ram
        /\ syncCall' = [SyncCalled("cleanup", TRUE) EXCEPT
                            !.fault = IF ok THEN "none" ELSE "writeEEPROM"]
        /\ saved' = SaveOf(saved, rtc, ok, FALSE)
        /\ UNCHANGED serviceVars
        /\ UNCHANGED <<powerVars, sleepSchedule_, rtcCall, timeRegisters,
                       syncCount, session, syncStats, raceVars>>

\* setTimeFromNetwork(networkTime)
SetTimeFromNetwork ==
    \E networkTime \in NetworkTimes, fault \in SyncFaults,
       torn \in TornWrites(7) \cup TornWrites(12) :
        LET saveOk == fault # "writeEEPROM"
            io == SyncOutcome(fault # "readDateTime", fault # "writeDateTime", torn,
                              saveOk, torn, FirstSyncEpoch + syncCount)
            out == setTimeFromNetwork(platform, rtc, timeRegisters, chipRam, networkTime, io)
        IN
        /\ syncCount < MaxSyncs
        /\ platform = "GENERIC" => fault = "none"
        /\ torn \in IF fault = "writeDateTime" THEN TornWrites(7)
                     ELSE IF fault = "writeEEPROM" THEN TornWrites(12) ELSE {0}
        /\ rtc' = out.rtc
        /\ timeRegisters' = out.registers
        /\ chipRam' = out.ram
        /\ syncCall' = [NoSyncCall EXCEPT
                            !.op = "setTimeFromNetwork",
                            !.networkTime = networkTime,
                            !.fault = fault, !.ret = out.ret,
                            !.hadValidTime = out.hadValidTime,
                            !.driftSeconds = out.driftSeconds]
        /\ saved' = IF out.ret THEN SaveOf(saved, out.rtc, saveOk, TRUE) ELSE saved
        /\ syncCount' = IF out.ret THEN syncCount + 1 ELSE syncCount
        /\ session' = LET apart == SecondsApart(readDateTime(platform, timeRegisters, TRUE).dateTime, NetworkDateTime)
                           hadTime == rtc.hasValidTime_ /\ fault # "readDateTime"
                       IN IF out.ret
                          THEN [session EXCEPT !.syncs = @ + 1,
                                               !.counted = IF hadTime THEN @ + apart ELSE @,
                                               !.all = @ + apart]
                          ELSE session
        /\ UNCHANGED serviceVars
        /\ UNCHANGED <<powerVars, sleepSchedule_, rtcCall, syncStats, raceVars>>

\* the clock of the chip (the system clock on the development build) runs
\* on, unless it is halted
ClockRuns ==
    \E t \in HardwareTimes :
        /\ timeRegisters' = IF platform = "ESP32" /\ timeRegisters[1] >= CH_BIT
                            THEN timeRegisters ELSE TimeRegisters(t)
        /\ syncCall' = SyncCalled("clock", TRUE)
        /\ UNCHANGED serviceVars
        /\ UNCHANGED <<powerVars, sleepSchedule_, rtcCall, rtc, chipRam, syncCount,
                       session, saved, syncStats, raceVars>>

\* the program starts again (a reset, or the wake from a deep sleep) without
\* a cleanup(): new PowerManager and RTCTimeManager objects are constructed,
\* the chip keeps its registers and its RAM
RtcRestart ==
    /\ Becomes(Constructed(IF gpioHold THEN gpioLevel ELSE 1, gpioHold))
    /\ call' = [op |-> "boot", args |-> NoArgs, ret |-> "void"]
    /\ upLog' = <<>>
    /\ stats' = PowerStats
    /\ rtc' = RtcConstructed
    /\ syncCall' = SyncCalled("restart", TRUE)
    /\ session' = SessionFrom(0, FALSE)
    /\ syncStats' = RTCSyncStats
    /\ UNCHANGED serviceVars
    /\ UNCHANGED <<platform, resetReason, sleepSchedule_, rtcCall, timeRegisters,
                   chipRam, syncCount, saved, raceVars>>

RtcSyncNext ==
    \/ RtcInitialize
    \/ RtcCleanup
    \/ SetTimeFromNetwork
    \/ ClockRuns
    \/ RtcRestart

RtcSyncSpec == RtcSyncInit /\ [][RtcSyncNext]_vars


\* ------------------------------------------------------------------------
\* Two threads in the RTC Time Sync Service: one in setTimeFromNetwork, one
\* in getSyncStats. Neither function takes timeMutex_, so their statements
\* interleave; the bus operations succeed
\* ------------------------------------------------------------------------
\* a service beside a chip that shows the network time and holds no record
SyncRaceInit ==
    /\ PowerInit
    /\ ServiceInit
    /\ sleepSchedule_ = SleepSchedule
    /\ rtcCall = NoRtcCall
    /\ rtc = RtcConstructed
    /\ timeRegisters = TimeRegisters(NetworkDateTime)
    /\ chipRam = BlankRam
    /\ syncCall = NoSyncCall
    /\ syncCount = 0
    /\ session = SessionFrom(0, FALSE)
    /\ saved = NoSave
    /\ syncStats = RTCSyncStats
    /\ NoThreads

\* initialize(), no other call being in progress
QuietInitialize ==
    /\ syncPc = "idle" /\ statsPc = "idle"
    /\ InitializeCall(TRUE)

\* the clock runs on; only the time a setTimeFromNetwork call reads
\* matters, so it is looked at between the calls
QuietClockRuns ==
    /\ syncPc = "idle" /\ statsPc = "idle"
    /\ ClockRuns

\* setTimeFromNetwork up to the write of the new time: the guards, the
\* parse, the read of the current time, the write
SyncWriteTime ==
    \E networkTime \in NetworkTimes :
        LET parsed == parseTimeString(networkTime)
            read == readDateTime(platform, timeRegisters, TRUE)
            written == writeDateTime(platform, timeRegisters, parsed.dateTime, TRUE, 0)
            drift == calculateDrift(read.dateTime, parsed.dateTime)
            hadValidTime == rtc.hasValidTime_ /\ read.ret
        IN
        /\ syncPc = "idle"
        /\ syncCount < MaxSyncs
        /\ rtc.initialized_ /\ parsed.ret
        /\ timeRegisters' = written.mem
        /\ syncLocal' = [hadValidTime |-> hadValidTime, driftSeconds |-> drift]
        /\ syncPc' = "drift"
        /\ history' = history \cup
               {[syncAttempts |-> rtc.syncAttempts_ + 1,
                 successfulSyncs |-> rtc.successfulSyncs_ + 1,
                 totalDriftSeconds |-> rtc.totalDriftSeconds_
                                       + IF hadValidTime THEN abs(drift) ELSE 0]}
        /\ UNCHANGED serviceVars
        /\ UNCHANGED <<powerVars, sleepSchedule_, rtcCall, rtc, chipRam, syncCall,
                       syncCount, session, saved, syncStats, statsPc, statsLocal>>

\* one statement of setTimeFromNetwork: the thread moves from statement at
\* to statement to and the service becomes self
SyncStatement(at, to, self) ==
    /\ syncPc = at
    /\ syncPc' = to
    /\ rtc' = self
    /\ UNCHANGED serviceVars
    /\ UNCHANGED <<powerVars, sleepSchedule_, rtcCall, timeRegisters, chipRam,
                   syncCall, syncCount, session, saved, syncStats, syncLocal,
                   statsPc, statsLocal, history>>

\* totalDriftSeconds_ += std::abs(driftSeconds), if there was a valid time
SyncAddDrift ==
    SyncStatement("drift", "lastSyncTime",
                  [rtc EXCEPT !.totalDriftSeconds_ =
                       IF syncLocal.hadValidTime
                       THEN @ + abs(syncLocal.driftSeconds) ELSE @])

\* lastSyncTime_ = std::time(nullptr)
SyncSetLastSyncTime ==
    SyncStatement("lastSyncTime", "syncAttempts",
                  [rtc EXCEPT !.lastSyncTime_ = FirstSyncEpoch + syncCount])

\* syncAttempts_++
SyncCountAttempt ==
    SyncStatement("syncAttempts", "successfulSyncs",
                  [rtc EXCEPT !.syncAttempts_ = @ + 1])

\* successfulSyncs_++
SyncCountSuccess ==
    SyncStatement("successfulSyncs", "hasValidTime",
                  [rtc EXCEPT !.successfulSyncs_ = @ + 1])

\* hasValidTime_ = true
SyncSetValidTime ==
    SyncStatement("hasValidTime", "save", [rtc EXCEPT !.hasValidTime_ = TRUE])

\* savePersistedData(); return true
SyncSaveAndReturn ==
    /\ syncPc = "save"
    /\ syncPc' = "idle"
    /\ chipRam' = savePersistedData(platform, rtc, chipRam, TRUE, 0)
    /\ saved' = SaveOf(saved, rtc, TRUE, TRUE)
    /\ syncCall' = SyncCalled("setTimeFromNetwork", TRUE)
    /\ syncCount' = syncCount + 1
    /\ syncLocal' = NoSyncLocal
    /\ UNCHANGED serviceVars
    /\ UNCHANGED <<powerVars, sleepSchedule_, rtcCall, rtc, timeRegisters, session,
                   syncStats, statsPc, statsLocal, history>>

\* one statement of getSyncStats: the thread moves from statement at to
\* statement to and its local stats become local
StatsStatement(at, to, local) ==
    /\ statsPc = at
    /\ statsPc' = to
    /\ statsLocal' = local
    /\ UNCHANGED serviceVars
    /\ UNCHANGED <<powerVars, sleepSchedule_, rtcCall, syncVars, syncPc, syncLocal,
                   history>>

\* RTCSyncStats stats; stats.lastSyncTime = lastSyncTime_
StatsReadLastSyncTime ==
    StatsStatement("idle", "syncAttempts",
                   [RTCSyncStats EXCEPT !.lastSyncTime = rtc.lastSyncTime_])

\* stats.syncAttempts = syncAttempts_
StatsReadAttempts ==
    StatsStatement("syncAttempts", "successfulSyncs",
                   [statsLocal EXCEPT !.syncAttempts = rtc.syncAttempts_])

\* stats.successfulSyncs = successfulSyncs_
StatsReadSuccesses ==
    StatsStatement("successfulSyncs", "failedSyncs",
                   [statsLocal EXCEPT !.successfulSyncs = rtc.successfulSyncs_])

\* stats.failedSyncs = syncAttempts_ - successfulSyncs_
StatsReadFailed ==
    StatsStatement("failedSyncs", "totalDriftSeconds",
                   [statsLocal EXCEPT !.failedSyncs =
                        rtc.syncAttempts_ - rtc.successfulSyncs_])

\* stats.totalDriftSeconds = totalDriftSeconds_
StatsReadDrift ==
    StatsStatement("totalDriftSeconds", "averageDriftSeconds",
                   [statsLocal EXCEPT !.totalDriftSeconds = rtc.totalDriftSeconds_])

\* the average, if successfulSyncs_ > 0; return stats
StatsAverageAndReturn ==
    LET local == [statsLocal EXCEPT !.averageDriftSeconds =
                      IF rtc.successfulSyncs_ > 0
                      THEN rtc.totalDriftSeconds_ \div rtc.successfulSyncs_ ELSE @]
    IN
    /\ statsPc = "averageDriftSeconds"
    /\ statsPc' = "idle"
    /\ statsLocal' = RTCSyncStats
    /\ syncStats' = local
    /\ syncCall' = SyncCalled("getSyncStats", TRUE)
    /\ UNCHANGED serviceVars
    /\ UNCHANGED <<powerVars, sleepSchedule_, rtcCall, rtc, timeRegisters, chipRam,
                   syncCount, session, saved, syncPc, syncLocal, history>>

SyncRaceNext ==
    \/ QuietInitialize
    \/ QuietClockRuns
    \/ SyncWriteTime
    \/ SyncAddDrift
    \/ SyncSetLastSyncTime
    \/ SyncCountAttempt
    \/ SyncCountSuccess
    \/ SyncSetValidTime
    \/ SyncSaveAndReturn
    \/ StatsReadLastSyncTime
    \/ StatsReadAttempts
    \/ StatsReadSuccesses
    \/ StatsReadFailed
    \/ StatsReadDrift
    \/ StatsAverageAndReturn

SyncRaceSpec == SyncRaceInit /\ [][SyncRaceNext]_vars

\* ------------------------------------------------------------------------
\* The active configuration of the PowerManager
\* ------------------------------------------------------------------------
\* timeouts handed to configureWatchdog: none, one minute, the default
WatchdogTimeouts == {0, 60000, DEFAULT_WATCHDOG_TIMEOUT}

\* configurations handed to setPowerConfig
PowerConfigInputs ==
    { PowerConfig,
      [PowerConfig EXCEPT !.lowBatteryThreshold = 2000,
                          !.criticalBatteryThreshold = 1000,
                          !.emergencyShutdownEnabled = FALSE] }

ConfigureWatchdog ==
    \E timeoutMs \in WatchdogTimeouts, ok \in BOOLEAN :
        LET out == configureWatchdog(Self, timeoutMs, ok) IN
        /\ platform = "GENERIC" => ok
        /\ Called("configureWatchdog", [NoArgs EXCEPT !.us = timeoutMs, !.flag = ok],
                  [out EXCEPT !.ret = IF ok THEN "true" ELSE "false"])

DisableWatchdog ==
    \E ok \in BOOLEAN :
        /\ platform = "GENERIC" => ok
        /\ Called("disableWatchdog", [NoArgs EXCEPT !.flag = ok],
                  [disableWatchdog(Self, ok) EXCEPT
                       !.ret = IF ok THEN "true" ELSE "false"])

SetPowerConfig ==
    \E config \in PowerConfigInputs :
        Called("setPowerConfig", NoArgs, setPowerConfig(Self, config))

ConfigNext ==
    \/ Initialize
    \/ ConfigureWatchdog
    \/ DisableWatchdog
    \/ SetPowerConfig
    \/ EnablePeripherals
    \/ DisablePeripherals
    \/ EnterSleep
    \/ CheckBatteryLevel
    \/ EnterEmergencyMode
    \/ Reboot

ConfigSpec == Init /\ [][ConfigNext]_vars

\* ------------------------------------------------------------------------
\* The Battery Safety Monitor: one thread reading the status, statement by
\* statement, and the public operations another thread may call meanwhile
\* ------------------------------------------------------------------------
\* the innermost frame
Top(stack) == stack[Len(stack)]

\* all but the innermost frame
Pop(stack) == SubSeq(stack, 1, Len(stack) - 1)

\* initialize(): the device counts as found when the scan finds it
BatteryInitialize ==
    /\ batteryStack = NoFrames
    /\ batterySignal # "overflow"
    /\ deviceFound_' = (scanI2CDevices(platform) \/ deviceFound_)
    /\ batterySignal' = "idle"
    /\ UNCHANGED <<safetyLimits_, batteryStack, limitExceeded, emergencySleeps>>
    /\ UNCHANGED notBatteryVars

\* setSafetyLimits(...): plain stores, no lock
SetSafetyLimits ==
    \E limits \in SafetyLimitInputs :
        /\ batterySignal # "overflow"
        /\ safetyLimits_' = limits
        /\ UNCHANGED <<deviceFound_, batteryStack, batterySignal, limitExceeded,
                       emergencySleeps>>
        /\ UNCHANGED notBatteryVars

\* a caller enters readBatteryStatus(); without a found device it throws
ReadBatteryStatus ==
    /\ batteryStack = NoFrames
    /\ batterySignal # "overflow"
    /\ IF deviceFound_
       THEN batteryStack' = <<"readBatteryStatus">> /\ batterySignal' = "call"
       ELSE batteryStack' = NoFrames /\ batterySignal' = "throw"
    /\ limitExceeded' = FALSE
    /\ emergencySleeps' = 0
    /\ UNCHANGED <<deviceFound_, safetyLimits_>>
    /\ UNCHANGED notBatteryVars

\* readBatteryStatus reads the registers and checks the limits: within them
\* it returns the status, outside them it calls handleBatteryError
ReadAndCheck ==
    /\ batteryStack # NoFrames
    /\ Top(batteryStack) = "readBatteryStatus"
    /\ batterySignal = "call"
    /\ IF checkSafetyLimits(safetyLimits_, EnhancedBatteryStatus(platform))
       THEN /\ batteryStack' = Pop(batteryStack)
            /\ batterySignal' = "return"
            /\ UNCHANGED limitExceeded
       ELSE /\ batteryStack' = Append(batteryStack, "handleBatteryError")
            /\ batterySignal' = "call"
            /\ limitExceeded' = TRUE
    /\ UNCHANGED <<deviceFound_, safetyLimits_, emergencySleeps>>
    /\ UNCHANGED notBatteryVars

\* handleBatteryError first reads the status again, for the log; the frames
\* of the thread are limited, and the call that finds no room ends the
\* program
HandleBatteryError ==
    /\ batteryStack # NoFrames
    /\ Top(batteryStack) = "handleBatteryError"
    /\ batterySignal = "call"
    /\ IF Len(batteryStack) < MaxStackDepth
       THEN /\ batteryStack' = Append(batteryStack, "readBatteryStatus")
            /\ batterySignal' = "call"
       ELSE /\ batteryStack' = batteryStack
            /\ batterySignal' = "overflow"
    /\ UNCHANGED <<deviceFound_, safetyLimits_, limitExceeded, emergencySleeps>>
    /\ UNCHANGED notBatteryVars

\* handleBatteryError, the status read or the read failed (catch (...)):
\* the error text holds "safety", so enterEmergencySleep() is called; it
\* returns on the ESP32 build and throws on the development build
EnterEmergencySleep ==
    /\ batteryStack # NoFrames
    /\ Top(batteryStack) = "handleBatteryError"
    /\ batterySignal \in {"return", "throw"}
    /\ emergencySleeps' = emergencySleeps + 1
    /\ batteryStack' = Pop(batteryStack)
    /\ batterySignal' = IF platform = "ESP32" THEN "return" ELSE "throw"
    /\ UNCHANGED <<deviceFound_, safetyLimits_, limitExceeded>>
    /\ UNCHANGED notBatteryVars

\* readBatteryStatus after handleBatteryError: it returns the status, or
\* throws again what handleBatteryError threw
ReturnStatus ==
    /\ batteryStack # NoFrames
    /\ Top(batteryStack) = "readBatteryStatus"
    /\ batterySignal \in {"return", "throw"}
    /\ batteryStack' = Pop(batteryStack)
    /\ UNCHANGED <<deviceFound_, safetyLimits_, batterySignal, limitExceeded,
                   emergencySleeps>>
    /\ UNCHANGED notBatteryVars

\* the steps of the thread inside readBatteryStatus
BatteryStep ==
    \/ ReadAndCheck
    \/ HandleBatteryError
    \/ EnterEmergencySleep
    \/ ReturnStatus

BatteryNext ==
    \/ BatteryInitialize
    \/ SetSafetyLimits
    \/ ReadBatteryStatus
    \/ BatteryStep

\* a thread inside readBatteryStatus keeps running
BatterySpec ==
    Init /\ [][BatteryNext]_vars /\ WF_vars(BatteryStep)

\* ------------------------------------------------------------------------
\* The main operation loop of the orchestrator
\* ------------------------------------------------------------------------
\* while (!shouldShutdown && !emergencyStop), and the state set after the
\* loop; the battery is checked when its interval has passed
LoopCondition ==
    \E due \in BOOLEAN :
        /\ appPc = "while"
        /\ cycles < MaxCycles
        /\ IF ~shouldShutdown /\ ~emergencyStop
           THEN /\ appPc' = IF due THEN "checkBatteryStatus" ELSE "performScanningCycle"
                /\ cycles' = cycles + 1
                /\ UNCHANGED currentState
           ELSE /\ appPc' = "done"
                /\ currentState' = IF emergencyStop THEN "EMERGENCY" ELSE "SHUTDOWN"
                /\ UNCHANGED cycles
        /\ UNCHANGED <<shouldShutdown, emergencyStop, batteryCheck>>
        /\ UNCHANGED notAppVars

\* if (!checkBatteryStatus()) break; initializeSystem has made the monitor,
\* so batteryMonitor is non-null; a deep sleep on the ESP32 build ends the
\* program
CheckBatteryStatus ==
    \E reading \in BatteryReadings :
        LET out == checkBatteryStatus(TRUE, reading) IN
        /\ appPc = "checkBatteryStatus"
        /\ batteryCheck' = [made |-> TRUE, reading |-> reading, ret |-> out.ret]
        /\ IF out.deepSleep /\ platform = "ESP32"
           THEN /\ appPc' = "asleep"
                /\ UNCHANGED <<emergencyStop, currentState>>
           ELSE /\ emergencyStop' = (emergencyStop \/ out.emergencyStop)
                /\ IF out.ret
                   THEN appPc' = "performScanningCycle" /\ UNCHANGED currentState
                   ELSE /\ appPc' = "done"
                        /\ currentState' = IF emergencyStop' THEN "EMERGENCY"
                                           ELSE "SHUTDOWN"
        /\ UNCHANGED <<shouldShutdown, cycles>>
        /\ UNCHANGED notAppVars

\* performScanningCycle(), the upload and the pause; an exception is caught
\* by the loop, which pauses and goes on
PerformScanningCycle ==
    /\ appPc = "performScanningCycle"
    /\ appPc' = "while"
    /\ UNCHANGED <<currentState, shouldShutdown, emergencyStop, batteryCheck, cycles>>
    /\ UNCHANGED notAppVars

\* shouldShutdown is an atomic flag for another thread or a handler to set;
\* the handlers installSignalHandlers installs only log, and nothing else in
\* main.cpp sets the flag, so the model lets it be set at any point
RequestShutdown ==
    /\ appPc \notin {"done", "asleep"}
    /\ ~shouldShutdown
    /\ shouldShutdown' = TRUE
    /\ UNCHANGED <<appPc, currentState, emergencyStop, batteryCheck, cycles>>
    /\ UNCHANGED notAppVars

AppNext ==
    \/ LoopCondition
    \/ CheckBatteryStatus
    \/ PerformScanningCycle
    \/ RequestShutdown

AppSpec == Init /\ [][AppNext]_vars

\* ------------------------------------------------------------------------
\* The CellularManager: initialize, connect step by step, isConnected
\* ------------------------------------------------------------------------
\* CellularManager::initialize(baudRate, timeoutMs); gpioOk and serialOk are
\* whether the ESP32 driver calls succeed, reply the modem's answer to "AT"
CellInitialize ==
    \E gpioOk \in BOOLEAN, serialOk \in BOOLEAN, reply \in PlainReplies :
        LET opened == [cellular EXCEPT !.serialHandle_ = TRUE]
            probe == sendATCommand(platform, opened, "OK", opened.maxRetries_,
                                   DEFAULT_COMMAND_TIMEOUT, reply)
        IN  /\ connectPc = "idle"
            /\ platform = "GENERIC" => gpioOk /\ serialOk
            /\ IF cellular.initialized_
               THEN /\ cellCall' = CellCalled("initialize", TRUE)
                    /\ UNCHANGED cellular
               ELSE IF ~gpioOk \/ ~serialOk
               THEN /\ cellCall' = CellCalled("initialize", FALSE)
                    /\ UNCHANGED cellular
               ELSE /\ cellCall' = CellCalled("initialize", probe.ret)
                    /\ cellular' = [opened EXCEPT !.initialized_ = probe.ret]
            /\ UNCHANGED <<connectPc, attempts>>
            /\ UNCHANGED notCellVars

\* CellularManager::connect up to the call of checkNetworkRegistration: the
\* early returns, checkSIMReady, and configureAPN, whose failure is only a
\* warning
Connect ==
    \E reply \in SimReplies :
        /\ connectPc = "idle"
        /\ IF ~cellular.initialized_
           THEN /\ cellCall' = CellCalled("connect", FALSE)
                /\ UNCHANGED <<connectPc, attempts>>
           ELSE IF cellular.connected_
           THEN /\ cellCall' = CellCalled("connect", TRUE)
                /\ UNCHANGED <<connectPc, attempts>>
           ELSE IF ~checkSIMReady(platform, cellular, reply)
           THEN /\ cellCall' = CellCalled("connect", FALSE)
                /\ UNCHANGED <<connectPc, attempts>>
           ELSE /\ connectPc' = "checkNetworkRegistration"
                /\ attempts' = 0
                /\ cellCall' = [NoCellCall EXCEPT !.op = "checkNetworkRegistration",
                                                  !.ret = "pending"]
        /\ UNCHANGED cellular
        /\ UNCHANGED notCellVars

\* one pass of the loop of checkNetworkRegistration; a return of false makes
\* connect return false
CheckNetworkRegistration ==
    \E reply \in CregReplies, late \in LateLines :
        LET poll == RegistrationPoll(platform, cellular, reply, late)
            heard == IF platform = "ESP32" /\ cellular.serialHandle_
                     THEN CregStatus(reply, 1) ELSE -1
        IN  /\ connectPc = "checkNetworkRegistration"
            /\ attempts < maxAttempts
            /\ IF poll.outcome = "true"
               THEN /\ connectPc' = "activatePDPContext"
                    /\ cellular' = [cellular EXCEPT !.roaming = poll.roaming]
                    /\ cellCall' = [op |-> "checkNetworkRegistration", ret |-> "true",
                                    reported |-> heard, waitedMs |-> poll.waitedMs]
                    /\ UNCHANGED attempts
               ELSE IF poll.outcome = "false"
               THEN /\ connectPc' = "idle"
                    /\ cellCall' = [op |-> "connect", ret |-> "false",
                                    reported |-> heard, waitedMs |-> poll.waitedMs]
                    /\ UNCHANGED <<cellular, attempts>>
               ELSE /\ attempts' = attempts + 1
                    /\ cellCall' = [op |-> "checkNetworkRegistration", ret |-> "pending",
                                    reported |-> heard, waitedMs |-> poll.waitedMs]
                    /\ UNCHANGED <<cellular, connectPc>>
            /\ UNCHANGED notCellVars

\* the loop of checkNetworkRegistration ends without a registration:
\* "Network registration timeout", and connect returns false
RegistrationTimeout ==
    /\ connectPc = "checkNetworkRegistration"
    /\ attempts >= maxAttempts
    /\ connectPc' = "idle"
    /\ cellCall' = CellCalled("connect", FALSE)
    /\ UNCHANGED <<cellular, attempts>>
    /\ UNCHANGED notCellVars

\* the rest of connect: activatePDPContext, updateSignalInfo, connected_
ActivatePDPContext ==
    \E state \in PdpReplies, reply \in PlainReplies :
        LET active == activatePDPContext(platform, cellular, state, reply) IN
        /\ connectPc = "activatePDPContext"
        /\ connectPc' = "idle"
        /\ cellular' = [cellular EXCEPT !.connected_ = active]
        /\ cellCall' = CellCalled("connect", active)
        /\ UNCHANGED attempts
        /\ UNCHANGED notCellVars

\* CellularManager::isConnected: the flags, then sendATCommand("", "OK", 1,
\* 1000); reply is the modem's answer to "AT"
IsConnected ==
    \E reply \in PlainReplies :
        /\ connectPc = "idle"
        /\ cellCall' = CellCalled("isConnected",
               /\ cellular.initialized_
               /\ cellular.connected_
               /\ sendATCommand(platform, cellular, "OK", 1, 1000, reply).ret)
        /\ UNCHANGED <<cellular, connectPc, attempts>>
        /\ UNCHANGED notCellVars

\* CellularManager::disconnect
Disconnect ==
    /\ connectPc = "idle"
    /\ cellular' = [cellular EXCEPT !.connected_ = FALSE]
    /\ cellCall' = CellCalled("disconnect", TRUE)
    /\ UNCHANGED <<connectPc, attempts>>
    /\ UNCHANGED notCellVars

CellNext ==
    \/ CellInitialize
    \/ Connect
    \/ CheckNetworkRegistration
    \/ RegistrationTimeout
    \/ ActivatePDPContext
    \/ IsConnected
    \/ Disconnect

CellSpec == Init /\ [][CellNext]_vars

\* ------------------------------------------------------------------------
\* The Logger: callers of log(), flush() and shutdown(), and the logger
\* thread, statement by statement
\* ------------------------------------------------------------------------
\* queueCondition_.notify_one() / notify_all(): wakes the logger thread if
\* it is blocked in wait(), and is lost otherwise
Notify == notified \/ loggerPc = "waiting"

\* Logger::initialize: createNewLogFile, then the logger thread is started;
\* the lines of logSystemStartup are log() calls like any other
LoggerInitialize ==
    \E fileOk \in BOOLEAN :
        /\ loggerPc = "none"
        /\ shutdownPc = "idle"
        /\ IF fileOk
           THEN loggerPc' = "while" /\ shutdownRequested_' = FALSE
           ELSE UNCHANGED <<loggerPc, shutdownRequested_>>
        /\ UNCHANGED <<logQueue_, enqueued, writtenLog, queueMutex_, entryHeld,
                       notified, flushVars, shutdownVars>>
        /\ UNCHANGED notLogVars

\* Logger::log with asyncLogging_: lock_guard, push, notify_one
Log ==
    /\ enqueued < MaxEntries
    /\ shutdownPc \notin {"logSystemShutdown"}
    /\ queueMutex_ = "free"
    /\ logQueue_' = Append(logQueue_, enqueued + 1)
    /\ enqueued' = enqueued + 1
    /\ notified' = Notify
    /\ UNCHANGED <<writtenLog, shutdownRequested_, queueMutex_, loggerPc,
                   entryHeld, flushVars, shutdownVars>>
    /\ UNCHANGED notLogVars

\* loggerThreadFunction: while (!shutdownRequested_.load())
ThreadWhile ==
    /\ loggerPc = "while"
    /\ loggerPc' = IF shutdownRequested_ THEN "remaining" ELSE "lock"
    /\ UNCHANGED <<logQueue_, enqueued, writtenLog, shutdownRequested_,
                   queueMutex_, entryHeld, notified, flushVars, shutdownVars>>
    /\ UNCHANGED notLogVars

\* std::unique_lock<std::mutex> lock(queueMutex_), and lock.lock() after an
\* entry has been processed
ThreadLock ==
    /\ loggerPc \in {"lock", "relock"}
    /\ queueMutex_ = "free"
    /\ queueMutex_' = "logger"
    /\ loggerPc' = IF loggerPc = "lock" THEN "predicate" ELSE "entries"
    /\ UNCHANGED <<logQueue_, enqueued, writtenLog, shutdownRequested_,
                   entryHeld, notified, flushVars, shutdownVars>>
    /\ UNCHANGED notLogVars

\* queueCondition_.wait(lock, predicate): the predicate is evaluated with
\* the mutex held
ThreadPredicate ==
    /\ loggerPc = "predicate"
    /\ loggerPc' = IF logQueue_ # <<>> \/ shutdownRequested_ THEN "entries" ELSE "block"
    /\ UNCHANGED <<logQueue_, enqueued, writtenLog, shutdownRequested_,
                   queueMutex_, entryHeld, notified, flushVars, shutdownVars>>
    /\ UNCHANGED notLogVars

\* ... and when it is false the thread releases the mutex and blocks
ThreadBlock ==
    /\ loggerPc = "block"
    /\ loggerPc' = "waiting"
    /\ queueMutex_' = "free"
    /\ notified' = FALSE
    /\ UNCHANGED <<logQueue_, enqueued, writtenLog, shutdownRequested_,
                   entryHeld, flushVars, shutdownVars>>
    /\ UNCHANGED notLogVars

\* ... until it is notified; it takes the mutex again and evaluates the
\* predicate once more
ThreadWake ==
    /\ loggerPc = "waiting"
    /\ notified
    /\ queueMutex_ = "free"
    /\ queueMutex_' = "logger"
    /\ loggerPc' = "predicate"
    /\ notified' = FALSE
    /\ UNCHANGED <<logQueue_, enqueued, writtenLog, shutdownRequested_,
                   entryHeld, flushVars, shutdownVars>>
    /\ UNCHANGED notLogVars

\* while (!logQueue_.empty()) { front, pop, lock.unlock() ...; at the end of
\* the loop the unique_lock goes out of scope
ThreadPop ==
    /\ loggerPc = "entries"
    /\ queueMutex_' = "free"
    /\ IF logQueue_ # <<>>
       THEN /\ entryHeld' = Head(logQueue_)
            /\ logQueue_' = Tail(logQueue_)
            /\ loggerPc' = "write"
       ELSE /\ loggerPc' = "while"
            /\ UNCHANGED <<entryHeld, logQueue_>>
    /\ UNCHANGED <<enqueued, writtenLog, shutdownRequested_, notified,
                   flushVars, shutdownVars>>
    /\ UNCHANGED notLogVars

\* writeToConsole(entry) and writeToFile(entry), each behind its level
ThreadWrite ==
    /\ loggerPc = "write"
    /\ writtenLog' = Append(writtenLog, entryHeld)
    /\ entryHeld' = 0
    /\ loggerPc' = "relock"
    /\ UNCHANGED <<logQueue_, enqueued, shutdownRequested_, queueMutex_,
                   notified, flushVars, shutdownVars>>
    /\ UNCHANGED notLogVars

\* the thread ending without its final loop
ThreadRemaining_QueueDropped ==
    /\ loggerPc = "remaining"
    /\ queueMutex_ = "free"
    /\ loggerPc' = "done"
    /\ UNCHANGED <<logQueue_, writtenLog, enqueued, shutdownRequested_,
                   queueMutex_, entryHeld, notified, flushVars, shutdownVars>>
    /\ UNCHANGED notLogVars

\* after the loop: the remaining entries are written with the mutex held,
\* and the thread ends
ThreadRemaining ==
    /\ loggerPc = "remaining"
    /\ queueMutex_ = "free"
    /\ writtenLog' = writtenLog \o logQueue_
    /\ logQueue_' = <<>>
    /\ loggerPc' = "done"
    /\ UNCHANGED <<enqueued, shutdownRequested_, queueMutex_, entryHeld,
                   notified, flushVars, shutdownVars>>
    /\ UNCHANGED notLogVars

LoggerThread ==
    \/ ThreadWhile
    \/ ThreadLock
    \/ ThreadPredicate
    \/ ThreadBlock
    \/ ThreadWake
    \/ ThreadPop
    \/ ThreadWrite
    \/ ThreadRemaining

\* a thread calls Logger::flush()
FlushCall ==
    /\ flushPc \in {"idle", "returned"}
    /\ flushPc' = "lock"
    /\ flushCall' = LogCall(enqueued, logQueue_, loggerPc, shutdownRequested_)
    /\ UNCHANGED <<logQueue_, enqueued, writtenLog, shutdownRequested_,
                   queueMutex_, loggerPc, entryHeld, notified, shutdownVars>>
    /\ UNCHANGED notLogVars

\* std::unique_lock<std::mutex> lock(queueMutex_)
FlushLock ==
    /\ flushPc = "lock"
    /\ queueMutex_ = "free"
    /\ queueMutex_' = "flush"
    /\ flushPc' = "while"
    /\ UNCHANGED <<logQueue_, enqueued, writtenLog, shutdownRequested_,
                   loggerPc, entryHeld, notified, flushCall, shutdownVars>>
    /\ UNCHANGED notLogVars

\* while (!logQueue_.empty() && !shutdownRequested_.load()) { notify_all();
\* sleep_for(10ms); } with the mutex held all the time; it is released at
\* the end of the block
FlushWhile ==
    /\ flushPc = "while"
    /\ IF logQueue_ # <<>> /\ ~shutdownRequested_
       THEN /\ notified' = Notify
            /\ UNCHANGED <<flushPc, queueMutex_>>
       ELSE /\ flushPc' = "logFileStream_"
            /\ queueMutex_' = "free"
            /\ UNCHANGED notified
    /\ UNCHANGED <<logQueue_, enqueued, writtenLog, shutdownRequested_,
                   loggerPc, entryHeld, flushCall, shutdownVars>>
    /\ UNCHANGED notLogVars

\* logFileStream_.flush() behind fileMutex_, and the return
FlushReturn ==
    /\ flushPc = "logFileStream_"
    /\ flushPc' = "returned"
    /\ UNCHANGED <<logQueue_, enqueued, writtenLog, shutdownRequested_,
                   queueMutex_, loggerPc, entryHeld, notified, flushCall,
                   shutdownVars>>
    /\ UNCHANGED notLogVars

FlushStep ==
    \/ FlushLock
    \/ FlushWhile
    \/ FlushReturn

\* a thread, or the destructor, calls Logger::shutdown()
ShutdownCall ==
    /\ shutdownPc \in {"idle", "returned"}
    /\ shutdownCall' = LogCall(enqueued, logQueue_, loggerPc, shutdownRequested_)
    /\ shutdownPc' = IF shutdownRequested_ THEN "returned" ELSE "logSystemShutdown"
    /\ shutdownLines' = 0
    /\ UNCHANGED <<logQueue_, enqueued, writtenLog, shutdownRequested_,
                   queueMutex_, loggerPc, entryHeld, notified, flushVars>>
    /\ UNCHANGED notLogVars

\* logSystemShutdown(): five info() calls, each a log()
LogSystemShutdown ==
    /\ shutdownPc = "logSystemShutdown"
    /\ IF shutdownLines < ShutdownLines
       THEN /\ queueMutex_ = "free"
            /\ logQueue_' = Append(logQueue_, enqueued + 1)
            /\ enqueued' = enqueued + 1
            /\ notified' = Notify
            /\ shutdownLines' = shutdownLines + 1
            /\ UNCHANGED shutdownPc
       ELSE /\ shutdownPc' = "store"
            /\ UNCHANGED <<logQueue_, enqueued, notified, shutdownLines>>
    /\ UNCHANGED <<writtenLog, shutdownRequested_, queueMutex_, loggerPc,
                   entryHeld, flushVars, shutdownCall>>
    /\ UNCHANGED notLogVars

\* shutdownRequested_.store(true), made without the mutex
ShutdownStore ==
    /\ shutdownPc = "store"
    /\ shutdownRequested_' = TRUE
    /\ shutdownPc' = IF loggerPc = "none" THEN "close" ELSE "notify_all"
    /\ UNCHANGED <<logQueue_, enqueued, writtenLog, queueMutex_, loggerPc,
                   entryHeld, notified, flushVars, shutdownLines, shutdownCall>>
    /\ UNCHANGED notLogVars

\* if (asyncLogging_ && loggerThread_.joinable()) queueCondition_.notify_all()
ShutdownNotify ==
    /\ shutdownPc = "notify_all"
    /\ notified' = Notify
    /\ shutdownPc' = "join"
    /\ UNCHANGED <<logQueue_, enqueued, writtenLog, shutdownRequested_,
                   queueMutex_, loggerPc, entryHeld, flushVars, shutdownLines,
                   shutdownCall>>
    /\ UNCHANGED notLogVars

\* loggerThread_.join()
ShutdownJoin ==
    /\ shutdownPc = "join"
    /\ loggerPc = "done"
    /\ shutdownPc' = "close"
    /\ UNCHANGED <<logQueue_, enqueued, writtenLog, shutdownRequested_,
                   queueMutex_, loggerPc, entryHeld, notified, flushVars,
                   shutdownLines, shutdownCall>>
    /\ UNCHANGED notLogVars

\* logFileStream_.flush() and close(), and the return
ShutdownReturn ==
    /\ shutdownPc = "close"
    /\ shutdownPc' = "returned"
    /\ UNCHANGED <<logQueue_, enqueued, writtenLog, shutdownRequested_,
                   queueMutex_, loggerPc, entryHeld, notified, flushVars,
                   shutdownLines, shutdownCall>>
    /\ UNCHANGED notLogVars

ShutdownStep ==
    \/ LogSystemShutdown
    \/ ShutdownStore
    \/ ShutdownNotify
    \/ ShutdownJoin
    \/ ShutdownReturn

LoggerNext ==
    \/ LoggerInitialize
    \/ Log
    \/ LoggerThread
    \/ FlushCall
    \/ FlushStep
    \/ ShutdownCall
    \/ ShutdownStep

\* the scheduler lets every thread that can take a step take one
LoggerSpec ==
    /\ Init
    /\ [][LoggerNext]_vars
    /\ WF_vars(LoggerThread)
    /\ WF_vars(FlushStep)
    /\ WF_vars(ShutdownStep)

\* ------------------------------------------------------------------------
\* The SDCardManager and the card
\* ------------------------------------------------------------------------
\* SDCardManager::initialize; mounted is whether the card could be mounted
SdInitialize ==
    \E mounted \in BOOLEAN :
        /\ sdcard' = [sdcard EXCEPT !.initialized_ = sdcard.initialized_ \/ mounted]
        /\ sdCall' = [NoSdCall EXCEPT !.op = "initialize", !.before = sdFiles.file,
                                      !.ret = sdcard'.initialized_]
        /\ UNCHANGED sdFiles
        /\ UNCHANGED notSdVars

\* a call of writeFileAtomic, with every way the card can fail it
WriteFileAtomic ==
    \E data \in FileData, opened \in BOOLEAN, removed \in BOOLEAN, renamed \in BOOLEAN :
        \E count \in 0..Len(data), cleaned \in BOOLEAN :
            LET out == writeFileAtomic(sdcard, sdFiles, data, opened, count,
                                       removed, renamed, cleaned)
            IN  /\ sdFiles' = out.files
                /\ sdCall' = [op |-> "writeFileAtomic", before |-> sdFiles.file,
                              data |-> data, ret |-> out.ret]
                /\ UNCHANGED sdcard
                /\ UNCHANGED notSdVars

SdNext ==
    \/ SdInitialize
    \/ WriteFileAtomic

SdSpec == Init /\ [][SdNext]_vars

\* ------------------------------------------------------------------------
\* Properties
\* ------------------------------------------------------------------------
\* the peripherals enablePeripherals switches, in its order
UpOrder == <<"wifi", "bluetooth", "cellular", "sdcard", "sensors">>

\* the rail switches that turn the 5V rail and then the members of on, in
\* UpOrder, to the level up
RECURSIVE SwitchesOf(_, _, _)
SwitchesOf(order, on, level) ==
    IF order = <<>> THEN <<>>
    ELSE (IF Head(order) \in on
          THEN <<[rail |-> Head(order), on |-> level]>> ELSE <<>>)
         \o SwitchesOf(Tail(order), on, level)

Reversed(seq) == [i \in 1..Len(seq) |-> seq[Len(seq) + 1 - i]]

PowerUp(on) == <<[rail |-> "5V", on |-> TRUE]>> \o SwitchesOf(UpOrder, on, TRUE)

PowerDown(on) ==
    SwitchesOf(Reversed(UpOrder), on, FALSE) \o <<[rail |-> "5V", on |-> FALSE]>>

Peripherals == {UpOrder[i] : i \in DOMAIN UpOrder}

\* the platform sleep calls of the last operation that are deep sleeps
DeepSleeps == SelectSeq(sleepLog, LAMBDA e : e.kind = "deepSleep")

\* C1: whenever the tracked external5V flag is false, the cellular, sdcard
\* and sensors flags are false too (stated for an initialized controller, the
\* only one whose rails enablePeripherals and disablePeripherals switch).
C1_NoPeripheralOnWithout5V ==
    initialized_ /\ ~peripheralConfig_.external5V =>
        /\ ~peripheralConfig_.cellular
        /\ ~peripheralConfig_.sdcard
        /\ ~peripheralConfig_.sensors

\* C2: in every operation that switches rails, the 5V rail is switched on
\* before any peripheral is switched on and switched off only after every
\* peripheral that is switched off (stated for an initialized controller).
C2_5VFirstUpLastDown ==
    /\ initialized_
    /\ call.op \in {"enablePeripherals", "disablePeripherals",
                    "configurePeripherals", "checkBatteryLevel",
                    "enterEmergencyMode"}
    =>
        \A i, j \in DOMAIN railLog :
            /\ railLog[i].rail = "5V" /\ railLog[j].rail # "5V"
            /\ railLog[i].on = railLog[j].on
            => IF railLog[i].on THEN i < j ELSE j < i

\* the last operation is a disablePeripherals() that directly followed an
\* enablePeripherals(), both on an initialized controller
Scripted ==
    call.op = "disablePeripherals" /\ initialized_ /\ upLog # <<>>

\* C3 as claimed: enablePeripherals() then disablePeripherals() switches all
\* six rails up in the order 5V, WiFi, Bluetooth, Cellular, SD card, Sensors
\* and then all six down in the reverse order.
C3_AllSixRails ==
    Scripted => /\ upLog = PowerUp(Peripherals)
                /\ railLog = PowerDown(Peripherals)

\* C3 as amended: enablePeripherals() switches the 5V rail up first and then,
\* in the order WiFi, Bluetooth, Cellular, SD card, Sensors, exactly the
\* peripherals whose flag is set in the peripheral configuration; a
\* disablePeripherals() that follows switches the same peripherals down in the
\* reverse order and the 5V rail last.
C3_ConfiguredRailsInOrder ==
    /\ call.op = "enablePeripherals" /\ initialized_ =>
           railLog = PowerUp({p \in Peripherals : peripheralConfig_[p]})
    /\ Scripted =>
           \E on \in SUBSET Peripherals :
               upLog = PowerUp(on) /\ railLog = PowerDown(on)

C3_Witness ==
    /\ Scripted
    /\ upLog = PowerUp(Peripherals)
    /\ railLog = PowerDown(Peripherals)

\* C4: enterSleep(d) on an initialized controller hands the platform sleep
\* primitive minSleepDuration if d is below it, maxSleepDuration if d is above
\* it and d otherwise, and always reaches the primitive.
C4_SleepDurationClamped ==
    call.op = "enterSleep" /\ initialized_ =>
        LET d == call.args.us
            expected ==
                IF d < powerConfig_.minSleepDuration
                THEN powerConfig_.minSleepDuration
                ELSE IF d > powerConfig_.maxSleepDuration
                THEN powerConfig_.maxSleepDuration
                ELSE d
        IN /\ Len(DeepSleeps) = 1
           /\ DeepSleeps[1].us = expected

C4_Witness ==
    /\ call.op = "enterSleep" /\ initialized_
    /\ call.args.us > powerConfig_.maxSleepDuration
    /\ Len(DeepSleeps) = 1
    /\ DeepSleeps[1].us = powerConfig_.maxSleepDuration

\* C5: with emergency shutdown enabled, checkBatteryLevel(p) leaves the
\* controller in emergency mode and does not return true when p is at or below
\* the critical threshold (it returns false whenever it returns), and returns
\* true without entering emergency mode when p is above it.
C5_CriticalBoundary ==
    [][ call'.op = "checkBatteryLevel"
        /\ powerConfig_.emergencyShutdownEnabled =>
            IF call'.args.percent <= powerConfig_.criticalBatteryThreshold
            THEN /\ emergencyMode_'
                 /\ call'.ret = IF pc' = "active" THEN "false" ELSE "noreturn"
            ELSE /\ emergencyMode_' = emergencyMode_
                 /\ call'.ret = "true" ]_vars

C5_Witness ==
    /\ call.op = "checkBatteryLevel"
    /\ call.args.percent = powerConfig_.criticalBatteryThreshold
    /\ call.ret = "false"
    /\ emergencyMode_
    /\ DeepSleeps # <<>>

\* C6: for a percentage above the critical and at or below the low threshold,
\* checkBatteryLevel returns true, does not enter emergency mode, leaves the
\* wifi and bluetooth flags false and every other peripheral flag as it was.
C6_LowBatteryFrame ==
    [][ /\ call'.op = "checkBatteryLevel"
        /\ call'.args.percent > powerConfig_.criticalBatteryThreshold
        /\ call'.args.percent <= powerConfig_.lowBatteryThreshold
        => /\ call'.ret = "true"
           /\ emergencyMode_' = emergencyMode_
           /\ ~peripheralConfig_'.wifi
           /\ ~peripheralConfig_'.bluetooth
           /\ \A f \in {"cellular", "sdcard", "sensors", "external5V",
                        "rtc", "watchdog"} :
                  peripheralConfig_'[f] = peripheralConfig_[f] ]_vars

C6_Witness ==
    /\ call.op = "checkBatteryLevel"
    /\ call.args.percent = powerConfig_.lowBatteryThreshold
    /\ call.ret = "true"
    /\ Len(railLog) = 2
    /\ peripheralConfig_.cellular
    /\ ~emergencyMode_

\* an operation that calls enterEmergencyMode is about to complete
EmergencyRequested ==
    \/ call'.op = "enterEmergencyMode"
    \/ /\ call'.op = "checkBatteryLevel"
       /\ call'.args.percent <= powerConfig_.criticalBatteryThreshold
       /\ powerConfig_.emergencyShutdownEnabled

\* C7: once enterEmergencyMode has taken effect the wifi, bluetooth,
\* cellular, sdcard, sensors and external5V flags are false and the rtc and
\* watchdog flags are true.
C7_EmergencyFlags ==
    [][ EmergencyRequested /\ ~emergencyMode_ =>
            /\ emergencyMode_'
            /\ \A f \in Peripherals \cup {"external5V"} : ~peripheralConfig_'[f]
            /\ peripheralConfig_'.rtc
            /\ peripheralConfig_'.watchdog ]_vars

C7_Witness ==
    /\ call.op = "enterEmergencyMode"
    /\ emergencyMode_
    /\ Len(railLog) = 6
    /\ DeepSleeps # <<>>

\* C8: enterEmergencyMode called in emergency mode changes no peripheral
\* flag, no counter and no statistic, switches no rail and starts no sleep.
C8_SecondCallNoOp ==
    [][ call'.op = "enterEmergencyMode" /\ emergencyMode_ =>
            /\ UNCHANGED <<pc, initialized_, emergencyMode_, peripheralConfig_,
                           powerConfig_, powerStats_, accumulatedSleepTime_,
                           accumulatedActiveTime_, watchdogHandle_, gpioLevel,
                           gpioHold>>
            /\ railLog' = <<>>
            /\ sleepLog' = <<>> ]_vars

C8_Witness ==
    /\ call.op = "enterEmergencyMode"
    /\ initialized_ /\ emergencyMode_
    /\ powerStats_.sleepCycles > 0
    /\ sleepLog = <<>>

\* C9: within a session (until the chip resets) no operation makes the
\* emergency-mode flag false once it is true.
C9_EmergencyOneWay ==
    [][ emergencyMode_ /\ call'.op # "boot" => emergencyMode_' ]_vars

C9_Witness ==
    /\ emergencyMode_
    /\ call.op = "checkBatteryLevel"
    /\ call.args.percent > powerConfig_.lowBatteryThreshold
    /\ powerStats_.wakeupEvents > 0

\* the platform calls of an emergency sleep: the timer wakeup and then one
\* deep sleep, both of EMERGENCY_SLEEP_DURATION
EmergencySleep ==
    <<[kind |-> "timerWakeup", us |-> EMERGENCY_SLEEP_DURATION],
      [kind |-> "deepSleep", us |-> EMERGENCY_SLEEP_DURATION]>>

\* C10 as claimed: the first enterEmergencyMode call of a session makes
\* exactly one deep-sleep call, of one hour and with the timer wakeup
\* configured, whatever state the controller is in.
C10_AlwaysOneEmergencySleep ==
    [][ EmergencyRequested /\ ~emergencyMode_ => sleepLog' = EmergencySleep ]_vars

\* C10 as amended: the first enterEmergencyMode call of a session on an
\* initialized controller makes exactly one deep-sleep call, of one hour and
\* with the timer wakeup configured.
C10_OneEmergencySleepWhenInitialized ==
    [][ EmergencyRequested /\ ~emergencyMode_ /\ initialized_ =>
            sleepLog' = EmergencySleep ]_vars

C10_Witness ==
    /\ call.op = "enterEmergencyMode"
    /\ emergencyMode_ /\ initialized_
    /\ sleepLog = EmergencySleep
    /\ Len(railLog) = 6

\* the duration validateSleepDuration makes of a request d under the
\* controller's configuration
ClampOf(d) ==
    IF d < powerConfig_.minSleepDuration THEN powerConfig_.minSleepDuration
    ELSE IF d > powerConfig_.maxSleepDuration THEN powerConfig_.maxSleepDuration
    ELSE d

\* every deep sleep of the last operation directly follows the configuration
\* of a timer wakeup for the same duration, a duration within the bounds
TimerWakeupBeforeEachDeepSleep ==
    \A i \in DOMAIN sleepLog :
        sleepLog[i].kind = "deepSleep" =>
            /\ i > 1
            /\ sleepLog[i - 1] = [kind |-> "timerWakeup", us |-> sleepLog[i].us]
            /\ sleepLog[i].us >= powerConfig_.minSleepDuration
            /\ sleepLog[i].us <= powerConfig_.maxSleepDuration

\* the last operation asked for the timer wakeup: enterSleep, the emergency
\* sleep, or enterDeepSleep with WAKEUP_TIMER in its mask
TimerRequested ==
    \/ call.op \in {"enterSleep", "enterEmergencyMode", "checkBatteryLevel"}
    \/ call.op = "enterDeepSleep" /\ call.args.mask % 2 = WAKEUP_TIMER

\* C11 as claimed: every deep sleep entered by an operation other than
\* shutdown is preceded by the configuration of a timer wakeup for the same
\* clamped duration.
C11_TimerWakeupBeforeEveryDeepSleep ==
    call.op # "shutdown" => TimerWakeupBeforeEachDeepSleep

\* C11 as amended: every deep sleep entered by enterSleep, by the emergency
\* sleep or by enterDeepSleep with WAKEUP_TIMER in its mask is preceded by the
\* configuration of a timer wakeup for the same clamped duration; an
\* enterDeepSleep whose mask lacks WAKEUP_TIMER hands the clamped duration to
\* the platform deep-sleep primitive with no timer wakeup configured.
C11_TimerWakeupWhenRequested ==
    /\ TimerRequested => TimerWakeupBeforeEachDeepSleep
    /\ call.op \in {"enterSleep", "enterDeepSleep"} /\ initialized_ =>
           /\ Len(DeepSleeps) = 1
           /\ DeepSleeps[1].us = ClampOf(call.args.us)
    /\ call.op = "enterDeepSleep" /\ initialized_ /\ ~TimerRequested =>
           sleepLog = <<[kind |-> "deepSleep", us |-> ClampOf(call.args.us)]>>

C11_Witness ==
    /\ call.op = "enterDeepSleep" /\ initialized_
    /\ call.args.mask = WAKEUP_TIMER
    /\ call.args.us = MIN_SLEEP_DURATION - 1
    /\ sleepLog = <<[kind |-> "timerWakeup", us |-> MIN_SLEEP_DURATION],
                    [kind |-> "deepSleep", us |-> MIN_SLEEP_DURATION]>>

\* C12: shutdown(false) and shutdown(true) on an initialized controller both
\* hand the maximum-value duration 0xFFFFFFFFFFFFFFFF to the platform
\* deep-sleep primitive.
C12_ShutdownSleepsUntilIntervention ==
    call.op = "shutdown" /\ initialized_ =>
        DeepSleeps = <<[kind |-> "deepSleep", us |-> UINT64_MAX]>>

\* C13: an enterDeepSleep call that returns on an initialized controller has
\* increased the sleep-cycle counter by exactly 1 and the wakeup-event counter
\* by exactly 1.
C13_OneCycleOneWakeup ==
    [][ call'.op = "enterDeepSleep" /\ initialized_ /\ pc' = "active" =>
            /\ powerStats_'.sleepCycles = powerStats_.sleepCycles + 1
            /\ powerStats_'.wakeupEvents = powerStats_.wakeupEvents + 1 ]_vars

\* C14: an enterLightSleep(d) that ran to completion has handed the platform
\* the same clamped duration and changed accumulated active time, accumulated
\* sleep time, the sleep-cycle counter and the wakeup-event counter by the
\* same amounts as a completed enterDeepSleep(d) from the same state.
C14_LightSleepBooksLikeDeepSleep ==
    [][ call'.op = "enterLightSleep" /\ initialized_ /\ call'.ret = "true" =>
            \E activeDuration \in ActiveDurations :
                LET deep == enterDeepSleep("GENERIC", Self, call'.args.us,
                                           WAKEUP_TIMER, activeDuration)
                IN /\ sleepLog'[1].us = deep.sleepLog[Len(deep.sleepLog)].us
                   /\ accumulatedActiveTime_' = deep.accumulatedActiveTime_
                   /\ accumulatedSleepTime_' = deep.accumulatedSleepTime_
                   /\ powerStats_'.sleepCycles = deep.powerStats_.sleepCycles
                   /\ powerStats_'.wakeupEvents = deep.powerStats_.wakeupEvents
      ]_vars

\* C15: enterLightSleep returns true if and only if the sleep ran until the
\* configured timer fired; it returns false when the sleep was ended by
\* another wake source, was refused, or was not attempted.
C15_TrueIffTimerWake ==
    call.op = "enterLightSleep" =>
        (call.ret = "true" <=>
            /\ sleepLog # <<>>
            /\ sleepLog[Len(sleepLog)].kind = "timerWake")

C15_Witness ==
    /\ call.op = "enterLightSleep" /\ initialized_
    /\ platform = "ESP32"
    /\ call.ret = "false"
    /\ sleepLog # <<>>
    /\ sleepLog[Len(sleepLog)].kind = "otherWake"

\* C16: accumulated active time and accumulated sleep time never decrease,
\* the wake from a deep sleep (a power cycle of the chip) included.
C16_TotalsNeverDecrease ==
    [][ /\ accumulatedActiveTime_' >= accumulatedActiveTime_
        /\ accumulatedSleepTime_' >= accumulatedSleepTime_ ]_vars

\* C17: whenever enterDeepSleep has invoked the platform deep-sleep primitive
\* with the 5V rail enabled (the control pin low), the hold of the control
\* pin is latched.
C17_HoldLatchedWhenSleeping ==
    /\ platform = "ESP32"
    /\ call.op \in {"enterSleep", "enterDeepSleep"}
    /\ DeepSleeps # <<>>
    /\ gpioLevel = 0
    => gpioHold

\* C18: getPowerStats reports dutyCycle equal to
\* activeTime / (activeTime + sleepTime) x 100 whenever the sum is positive
\* (10 for activeTime 100 and sleepTime 900) and 0 when both are zero.
C18_DutyCycle ==
    call.op = "getPowerStats" =>
        LET activeTime == accumulatedActiveTime_
            sleepTime == accumulatedSleepTime_
        IN /\ stats.totalActiveTime = activeTime
           /\ stats.totalSleepTime = sleepTime
           /\ stats.dutyCycle =
                  IF activeTime + sleepTime > 0
                  THEN (activeTime * 100) \div (activeTime + sleepTime)
                  ELSE 0
           /\ activeTime = 100 /\ sleepTime = 900 => stats.dutyCycle = 10

C18_Witness ==
    /\ call.op = "getPowerStats"
    /\ accumulatedActiveTime_ = 100
    /\ accumulatedSleepTime_ = 900
    /\ stats.dutyCycle = 10

\* C19 as claimed: getPowerStats reports an average sleep duration equal to
\* totalSleepTime divided by sleepCycles whenever sleepCycles > 0, and 0 when
\* sleepCycles is 0.
C19_AverageIsTotalPerCycle ==
    call.op = "getPowerStats" =>
        stats.averageSleepDuration =
            IF stats.sleepCycles > 0
            THEN stats.totalSleepTime \div stats.sleepCycles
            ELSE 0

\* C19 as amended: getPowerStats reports an average sleep duration in
\* seconds, totalSleepTime divided by sleepCycles and by the number of
\* totalSleepTime units in a second (1000 of the milliseconds used here,
\* 1000000 of the source's microseconds) whenever sleepCycles > 0, and 0 when
\* sleepCycles is 0, from the accumulated counters at the time of the call.
C19_AverageInSeconds ==
    call.op = "getPowerStats" =>
        /\ stats.totalSleepTime = accumulatedSleepTime_
        /\ stats.sleepCycles = powerStats_.sleepCycles
        /\ stats.averageSleepDuration =
               IF stats.sleepCycles > 0
               THEN (stats.totalSleepTime \div stats.sleepCycles) \div 1000
               ELSE 0

C19_Witness ==
    /\ call.op = "getPowerStats"
    /\ stats.sleepCycles = 2
    /\ stats.totalSleepTime = 4 * MIN_SLEEP_DURATION
    /\ stats.averageSleepDuration = 2

\* the wrap-aware membership test of hour in the night window
InNightWindow(hour, nightStart, nightEnd) ==
    IF nightStart > nightEnd
    THEN hour >= nightStart \/ hour < nightEnd
    ELSE nightStart <= hour /\ hour < nightEnd

C21_EqualBoundsAreFullDayNight ==
    /\ rtcCall.made /\ rtcCall.time.wellFormed
    /\ sleepSchedule_.enabled
    /\ sleepSchedule_.nightStartHour = sleepSchedule_.nightEndHour
    => rtcCall.ret = sleepSchedule_.nightSleepMinutes * 60000

\* C22: in every reachable state of the RTC service, after any sequence of
\* initialize, setTimeFromNetwork (succeeding, failing to parse or failing to
\* write the hardware), cleanup and reload of the persisted record, the
\* number of successful syncs is at most the number of sync attempts.
C22_SuccessesNeverExceedAttempts ==
    rtc.successfulSyncs_ <= rtc.syncAttempts_

\* C23: a setTimeFromNetwork call with a string that fails to parse returns
\* failure and changes nothing: the has-valid-time flag, the last-sync time,
\* both counters, the total drift, the time registers of the chip and the
\* persisted record are as before the call.
C23_ParseFailureChangesNothing ==
    [][ /\ syncCall'.op = "setTimeFromNetwork"
        /\ ~parseTimeString(syncCall'.networkTime).ret
        => /\ syncCall'.ret = FALSE
           /\ rtc'.hasValidTime_ = rtc.hasValidTime_
           /\ rtc'.lastSyncTime_ = rtc.lastSyncTime_
           /\ rtc'.syncAttempts_ = rtc.syncAttempts_
           /\ rtc'.successfulSyncs_ = rtc.successfulSyncs_
           /\ rtc'.totalDriftSeconds_ = rtc.totalDriftSeconds_
           /\ timeRegisters' = timeRegisters
           /\ chipRam' = chipRam ]_vars

C23_Witness ==
    /\ syncCall.op = "setTimeFromNetwork"
    /\ syncCall.networkTime.format = "TEXT"
    /\ syncCall.ret = FALSE
    /\ rtc.initialized_ /\ rtc.hasValidTime_
    /\ rtc.successfulSyncs_ = 1
    /\ rtc.lastSyncTime_ = FirstSyncEpoch

\* C24: setTimeFromNetwork accepts a well-formed time string in either
\* layout, the modem's YY/MM/DD,HH:MM:SS+ZZ as CellularManager::getNetworkTime
\* returns it and the ISO-8601 YYYY-MM-DDTHH:MM:SSZ: on an initialized
\* service whose chip takes the write, the call succeeds.
C24_BothLayoutsAccepted ==
    /\ syncCall.op = "setTimeFromNetwork"
    /\ syncCall.networkTime.format \in {"CCLK", "ISO_Z"}
    /\ rtc.initialized_
    /\ syncCall.fault = "none"
    => syncCall.ret = TRUE

C26_FirstSyncCountsDrift ==
    [][ /\ syncCall'.op = "setTimeFromNetwork"
        /\ syncCall'.ret /\ syncCall'.fault = "none"
        /\ session.syncs = 0 /\ session.valid
        /\ isValidTime(ShownTime(timeRegisters))
        => rtc'.totalDriftSeconds_ =
               rtc.totalDriftSeconds_
               + SecondsApart(readDateTime("ESP32", timeRegisters, TRUE).dateTime,
                              NetworkDateTime) ]_vars

\* the counters a 12-byte record spells, most significant byte first
RecordCounters(bytes) ==
    [syncAttempts |-> (256 * bytes[3]) + bytes[4],
     successfulSyncs |-> (256 * bytes[5]) + bytes[6],
     totalDriftSeconds |-> (16777216 * bytes[7]) + (65536 * bytes[8]) + (256 * bytes[9]) + bytes[10]]

\* C27: on the ESP32 build, an initialize() that reloads the record a save
\* wrote whole yields sync-attempt, successful-sync and accumulated-drift
\* values identical to the in-memory values that were saved.
C27_ReloadYieldsSavedCounters ==
    [][ /\ syncCall'.op = "initialize"
        /\ syncCall'.ret /\ syncCall'.fault = "none"
        /\ ~rtc.initialized_
        /\ platform = "ESP32"
        /\ saved.whole
        => Counters(rtc') = saved.counters ]_vars

\* an initialize() step that probes the chip successfully and then finds no
\* record: the read fails, or the bytes read do not start with 0xA5 0x5A
InitializeFindsNoRecord ==
    /\ syncCall'.op = "initialize"
    /\ ~rtc.initialized_
    /\ syncCall'.fault \in {"none", "readEEPROM"}
    /\ syncCall'.fault = "readEEPROM" \/ ~syncCall'.magic

\* C28 as claimed: when the persisted record is unreadable or does not start
\* with the magic bytes, initialize() succeeds and the three counters are
\* zero afterwards.
C28_NoRecordMeansZeroCounters ==
    [][ InitializeFindsNoRecord
        => /\ syncCall'.ret
           /\ Counters(rtc') = Counters(RtcConstructed) ]_vars

\* C28 as amended: when the persisted record is unreadable or does not start
\* with the magic bytes, initialize() succeeds and leaves the three counters
\* as they were: zero on a newly constructed service, and the values still in
\* memory on a service that is initialized again after a cleanup().
C28_NoRecordKeepsCounters ==
    [][ InitializeFindsNoRecord
        => /\ syncCall'.ret
           /\ rtc'.initialized_
           /\ Counters(rtc') = Counters(rtc)
           /\ rtc = RtcConstructed => Counters(rtc') = Counters(RtcConstructed) ]_vars

C28_Witness ==
    /\ syncCall.op = "initialize"
    /\ syncCall.fault = "readEEPROM"
    /\ syncCall.ret /\ rtc.initialized_
    /\ chipRam = FullRecord
    /\ session.syncs = 0
    /\ Counters(rtc) = Counters(RtcConstructed)

\* a successful setTimeFromNetwork step during which the write of the
\* persisted record fails
SyncLosesRecord ==
    /\ syncCall'.op = "setTimeFromNetwork"
    /\ syncCall'.fault = "writeEEPROM"
    /\ rtc.initialized_
    /\ parseTimeString(syncCall'.networkTime).ret

C30_SnapshotFromOnePointInTime ==
    syncCall.op = "getSyncStats" =>
        [syncAttempts |-> syncStats.syncAttempts,
         successfulSyncs |-> syncStats.successfulSyncs,
         totalDriftSeconds |-> syncStats.totalDriftSeconds] \in history

\* C31: initialize() returns failure whenever a hardware configuration step
\* fails, the start of the watchdog included, and then leaves the controller
\* uninitialized.  The watchdog handle still null after an initialize() of
\* an uninitialized controller with a timeout configured is a failed start.
C31_InitializeFailsWhenWatchdogFails ==
    [][call'.op = "initialize" /\ ~initialized_
         /\ powerConfig_.watchdogTimeoutMs > 0 /\ ~watchdogHandle_'
       => call'.ret = "false" /\ ~initialized_']_vars

\* C35: no operation other than the configuration update (and the
\* construction of a new controller at boot) changes a field of the active
\* PowerConfig
C35_OnlyUpdateChangesPowerConfig ==
    [][call'.op \notin {"setPowerConfig", "boot"} => powerConfig_' = powerConfig_]_vars

\* the rails a sequence of rail switches turned on
RailsOn(log) == {log[i].rail : i \in {j \in DOMAIN log : log[j].on}}

\* C39: on an initialized controller disablePeripherals() followed by
\* enablePeripherals() leaves the same set of peripherals powered as before
\* the disable.  The set before the disable is the one an enablePeripherals()
\* had just powered (upLog); the set after the pair is the one the second
\* enablePeripherals() powers again, disablePeripherals() having switched
\* every rail off.
C39_DisableThenEnableRestores ==
    [][initialized_ /\ call.op = "disablePeripherals" /\ upLog # <<>>
         /\ call'.op = "enablePeripherals"
       => RailsOn(railLog') = RailsOn(upLog)]_vars

\* C32: whenever readBatteryStatus obtains a reading outside the configured
\* safety limits, enterEmergencySleep is eventually invoked, also when every
\* later read is outside the limits as well
C32_OutOfLimitLeadsToEmergencySleep ==
    (limitExceeded /\ emergencySleeps = 0) ~> (emergencySleeps > 0)

\* C33: when reading the battery status fails, the battery check of the
\* orchestrator does not propagate the failure or end the main loop: it
\* reports that the loop may go on, no emergency stop is set, and the loop
\* goes on to the scanning cycle in state RUNNING
C33_FailedReadDoesNotStopLoop ==
    [][appPc = "checkBatteryStatus" /\ appPc' # appPc
         /\ batteryCheck'.reading.throws
       => /\ batteryCheck'.ret
          /\ appPc' = "performScanningCycle"
          /\ emergencyStop' = emergencyStop
          /\ currentState' = "RUNNING"]_vars

\* a battery check whose read failed has been made and the loop is at the
\* scanning cycle
C33_Witness ==
    /\ batteryCheck.made /\ batteryCheck.reading.throws
    /\ appPc = "performScanningCycle"
    /\ currentState = "RUNNING"

\* the longest one pass of the registration loop can wait: three attempts of
\* the command with the pauses between them, the second read, the sleep
PollTimeLimit == 3 * DEFAULT_COMMAND_TIMEOUT + 2 * 500 + 2000 + 1000

\* the registration loop never makes more than 60 polls, each waits no
\* longer than the fixed limit, and it returns false once they are used up
RegistrationIsBounded ==
    [][connectPc = "checkNetworkRegistration"
       => /\ attempts' <= maxAttempts
          /\ cellCall'.waitedMs <= PollTimeLimit
          /\ attempts >= maxAttempts
               => connectPc' = "idle" /\ cellCall'.ret = "false"]_vars

\* C34: checkNetworkRegistration always terminates: it makes at most 60
\* polling attempts, each bounded by a fixed per-attempt timeout, and it
\* returns false when they are used up or as soon as the modem reports that
\* registration is denied.
C34_RegistrationPollingIsBounded ==
    [][connectPc = "checkNetworkRegistration"
       => /\ attempts' <= maxAttempts
          /\ cellCall'.waitedMs <= PollTimeLimit
          /\ attempts >= maxAttempts
               => connectPc' = "idle" /\ cellCall'.ret = "false"
          /\ cellCall'.reported = 3
               => connectPc' = "idle" /\ cellCall'.ret = "false"]_vars

\* C38: immediately after connect() returns true, with no disconnect in
\* between, isConnected() returns true.
C38_ConnectedAfterConnect ==
    [][cellCall.op = "connect" /\ cellCall.ret = "true"
         /\ cellCall'.op = "isConnected"
       => cellCall'.ret = "true"]_vars

\* the entries pushed before the call have each been written once, in the
\* order they were pushed
WrittenInOrder(found) == Upto(writtenLog, found.pending) = Run(0, found.pending)

\* C36: with asynchronous logging and the logger thread running, a flush()
\* called while entries are queued eventually returns, with every entry
\* pushed before the call written by the logger thread.
C36_FlushReturnsWithQueueWritten ==
    (flushPc = "lock" /\ flushCall.queued /\ flushCall.running)
        ~> (flushPc = "returned" /\ WrittenInOrder(flushCall))

\* when flush() returns, the entries pushed before the call have been
\* written
FlushReturnsAfterWrites ==
    flushPc = "returned" /\ flushCall.running => WrittenInOrder(flushCall)

RunningShutdownReturns ==
    (shutdownPc = "logSystemShutdown" /\ shutdownCall.running) ~> (shutdownPc = "returned")

\* C40: writeFileAtomic(f, data) is all-or-nothing: when it returns true the
\* file f holds exactly data, and when it returns false f still holds its
\* complete previous contents; it is never left missing or partly written.
C40_WriteFileAtomicAllOrNothing ==
    sdCall.op = "writeFileAtomic"
        => sdFiles.file = IF sdCall.ret THEN FileOf(sdCall.data) ELSE sdCall.before

\* the data of a partly failed write is only ever in the temporary file
NoPartialFile == sdFiles.file.exists => sdFiles.file.content \in FileData

====
